---- MODULE Spec2Model ----
(***************************************************************************)
(* QuizMatrix: the quiz lifecycle, the participant registry and the        *)
(* scoring function of src/src/hooks/useQuiz.js and src/src/utils/         *)
(* helpers.js, with the admin and participant pages that call them.        *)
(***************************************************************************)
EXTENDS Integers, Sequences, FiniteSets, TLC

VARIABLES
    quiz,           \* the document quizzes/{quizId}
    questions,      \* the collection quizzes/{quizId}/questions, ordered by index
    participants,   \* the collection quizzes/{quizId}/participants, keyed by uid
    responses,      \* the collection quizzes/{quizId}/responses
    nextId,         \* the next auto-generated document id
    now,            \* the server clock, in seconds
    view,           \* per admin page: the last quiz snapshot delivered to it
    viewParts,      \* per admin page: whether its participants snapshot is non-empty
    adminOp,        \* per admin page: the handler in progress and its position
    race,           \* history: the nextQuestion calls in flight and where they began
    clientUser,     \* per participant page: the signed-in user
    client,         \* per participant page: its state and the handler in progress
    scoreCall       \* one call of calculateScore: its arguments and its result

storeVars == <<quiz, questions, participants, responses, nextId, now>>

adminVars == <<view, viewParts, adminOp, race>>

clientVars == <<clientUser, client>>

scoreVars == <<scoreCall>>

vars == <<quiz, questions, participants, responses, nextId, now,
          view, viewParts, adminOp, race, clientUser, client, scoreCall>>

(***************************************************************************)
(* JavaScript numbers.  calculateScore computes with IEEE-754 doubles: the *)
(* model carries a number as a sign and a magnitude in fixed point, a      *)
(* sequence of limbs, most significant first, and rounds every operation   *)
(* to 53 significant bits (round to nearest, ties to even).                *)
(***************************************************************************)

\* significand width of a JavaScript number
MantissaBits == 53

\* a magnitude is IntLimbs + FracLimbs limbs of LimbBits bits each
LimbBits == 15

IntLimbs == 2

FracLimbs == 6

LimbBase == 2 ^ LimbBits

NumLimbs == IntLimbs + FracLimbs

RECURSIVE BitLen(_)
BitLen(n) == IF n = 0 THEN 0 ELSE 1 + BitLen(n \div 2)

ZeroMag == [k \in 1..NumLimbs |-> 0]

\* the magnitude of the integer n, 0 <= n < LimbBase ^ IntLimbs
IntMag(n) ==
    [k \in 1..NumLimbs |->
        IF k = IntLimbs THEN n % LimbBase
        ELSE IF k = IntLimbs - 1 THEN n \div LimbBase ELSE 0]

IntPart(m) == m[IntLimbs - 1] * LimbBase + m[IntLimbs]

HasFraction(m) == \E k \in (IntLimbs + 1)..NumLimbs : m[k] # 0

\* bit i of a magnitude, bit 0 the least significant
MagBit(m, i) == (m[NumLimbs - (i \div LimbBits)] \div (2 ^ (i % LimbBits))) % 2

\* number of bits up to the most significant one bit
MagBitLen(m) ==
    IF m = ZeroMag THEN 0
    ELSE LET top == CHOOSE k \in 1..NumLimbs : m[k] # 0 /\ \A j \in 1..(k-1) : m[j] = 0
         IN  (NumLimbs - top) * LimbBits + BitLen(m[top])

\* a + b and a - b (a >= b) on limb sequences of equal length
RECURSIVE AddLimbs(_, _)
AddLimbs(a, b) ==
    IF a = <<>> THEN [limbs |-> <<>>, carry |-> 0]
    ELSE LET rest == AddLimbs(Tail(a), Tail(b))
             v    == Head(a) + Head(b) + rest.carry
         IN  [limbs |-> <<v % LimbBase>> \o rest.limbs, carry |-> v \div LimbBase]

RECURSIVE SubLimbs(_, _)
SubLimbs(a, b) ==
    IF a = <<>> THEN [limbs |-> <<>>, borrow |-> 0]
    ELSE LET rest == SubLimbs(Tail(a), Tail(b))
             v    == Head(a) - Head(b) - rest.borrow
         IN  [limbs |-> <<v % LimbBase>> \o rest.limbs,
              borrow |-> IF v < 0 THEN 1 ELSE 0]

\* a * k for a small integer k
RECURSIVE MulLimbs(_, _)
MulLimbs(a, k) ==
    IF a = <<>> THEN [limbs |-> <<>>, carry |-> 0]
    ELSE LET rest == MulLimbs(Tail(a), k)
             v    == Head(a) * k + rest.carry
         IN  [limbs |-> <<v % LimbBase>> \o rest.limbs, carry |-> v \div LimbBase]

\* long division of a limb sequence by a small integer d, remainder r carried in
RECURSIVE DivLimbs(_, _, _)
DivLimbs(a, r, d) ==
    IF a = <<>> THEN [limbs |-> <<>>, rem |-> r]
    ELSE LET v    == r * LimbBase + Head(a)
             rest == DivLimbs(Tail(a), v % d, d)
         IN  [limbs |-> <<v \div d>> \o rest.limbs, rem |-> rest.rem]

\* the magnitude with the one bit i set
BitMag(i) ==
    [k \in 1..NumLimbs |->
        IF k = NumLimbs - (i \div LimbBits) THEN 2 ^ (i % LimbBits) ELSE 0]

\* m with its bits below bit p cleared
ClearBelow(m, p) ==
    [k \in 1..NumLimbs |->
        LET low == (NumLimbs - k) * LimbBits
        IN  IF low >= p THEN m[k]
            ELSE IF low + LimbBits <= p THEN 0
            ELSE (m[k] \div (2 ^ (p - low))) * (2 ^ (p - low))]

\* the magnitude of the double nearest to m (sticky: a non-zero remainder
\* lies below the last bit of m)
RoundMag(m, sticky) ==
    LET p == MagBitLen(m) - MantissaBits
    IN  IF p <= 0 THEN m
        ELSE LET half  == MagBit(m, p - 1) = 1
                 below == sticky \/ \E i \in 0..(p - 2) : MagBit(m, i) = 1
                 odd   == MagBit(m, p) = 1
                 kept  == ClearBelow(m, p)
             IN  IF half /\ (below \/ odd) THEN AddLimbs(kept, BitMag(p)).limbs
                 ELSE kept

Num(neg, mag) == [neg |-> neg /\ mag # ZeroMag, mag |-> mag]

\* x / d in doubles, for a non-negative x and an integer d > 0
DivDouble(x, d) ==
    LET q == DivLimbs(x.mag, 0, d)
    IN  Num(FALSE, RoundMag(q.limbs, q.rem # 0))

\* 1 - q in doubles, for a non-negative q
OneMinusDouble(q) ==
    IF IntPart(q.mag) >= 1
    THEN Num(TRUE, RoundMag(SubLimbs(q.mag, IntMag(1)).limbs, FALSE))
    ELSE Num(FALSE, RoundMag(SubLimbs(IntMag(1), q.mag).limbs, FALSE))

\* x * k in doubles, for an integer k > 0
MulDouble(x, k) == Num(x.neg, RoundMag(MulLimbs(x.mag, k).limbs, FALSE))

\* Math.floor
Floor(x) ==
    IF ~x.neg THEN IntPart(x.mag)
    ELSE IF HasFraction(x.mag) THEN 0 - IntPart(x.mag) - 1 ELSE 0 - IntPart(x.mag)

IsZero(x) == x.mag = ZeroMag

Max(a, b) == IF a >= b THEN a ELSE b

\* milliseconds per second: a time difference in ms is divided by it
MsPerSecond == 1000

\* (Date.now() - startTime.getTime()) / 1000, clamped at 0
SecondsFromMs(ms) == DivDouble(Num(FALSE, IntMag(Max(0, ms))), MsPerSecond)

(***************************************************************************)
(* helpers.js: calculateScore                                              *)
(***************************************************************************)

\* the result NaN of calculateScore (0 / 0 in the bonus)
NaN == -1

baseScore == 100

maxBonus == 50

\* calculateScore: for a correct answer the base score plus the speed bonus
\* Math.max(0, Math.floor((1 - timeTaken / totalTime) * 50)); totalTime = 0
\* makes the quotient Infinity (the bonus is clamped to 0) or, for 0 / 0, NaN.

\* a calculateScore that forgets the early return for a wrong answer
calculateScore_noCorrectCheck(isCorrect, timeTaken, totalTime) ==
    IF totalTime = 0
    THEN (IF IsZero(timeTaken) THEN NaN ELSE baseScore)
    ELSE baseScore + Max(0, Floor(MulDouble(OneMinusDouble(DivDouble(timeTaken, totalTime)), maxBonus)))

\* a calculateScore whose speed bonus is scaled to 100 instead of 50
calculateScore_percentBonus(isCorrect, timeTaken, totalTime) ==
    IF ~isCorrect THEN 0
    ELSE IF totalTime = 0
    THEN (IF IsZero(timeTaken) THEN NaN ELSE baseScore)
    ELSE baseScore + Max(0, Floor(MulDouble(OneMinusDouble(DivDouble(timeTaken, totalTime)), 2 * maxBonus)))

calculateScore(isCorrect, timeTaken, totalTime) ==
    IF ~isCorrect THEN 0
    ELSE IF totalTime = 0
    THEN (IF IsZero(timeTaken) THEN NaN ELSE baseScore)
    ELSE LET speedBonus ==
                 Floor(MulDouble(OneMinusDouble(DivDouble(timeTaken, totalTime)), maxBonus))
         IN  baseScore + Max(0, speedBonus)

(***************************************************************************)
(* The store: one quiz document and its subcollections                     *)
(***************************************************************************)

\* the admin pages open on the quiz
Admins == {"a1", "a2"}

\* the signed-in users that take the quiz
Users == {"u1", "u2"}

\* the participant pages open on the quiz
Clients == {"c1", "c2"}

\* a timestamp field that holds null (or is absent from the document)
NoTime == -1

\* largest number of questions of a quiz
MaxQuestions == 2

\* the index of the option every question marks as correct
correctOption == 0

\* the options a participant can select
Options == {correctOption, correctOption + 1}

defaultTimePerQuestion == 30

defaultTotalTime == 300

\* a participants/{uid} document that does not exist
NoDoc == [exists |-> FALSE, score |-> 0, answeredQuestions |-> <<>>]

\* the participant document joinQuiz and submitAnswer create
participantData == [exists |-> TRUE, score |-> 0, answeredQuestions |-> <<>>]

\* createQuiz followed by n addQuestion calls: the draft quiz document
createQuiz(timeMode, n) ==
    [status |-> "draft", currentQuestionIndex |-> -1,
     questionStartTime |-> NoTime, quizStartTime |-> NoTime,
     timeMode |-> timeMode, timePerQuestion |-> defaultTimePerQuestion,
     totalTime |-> defaultTotalTime, totalQuestions |-> n,
     isRestricted |-> FALSE, allowedParticipants |-> <<>>, exists |-> TRUE]

\* the questions subcollection after n addQuestion calls; their ids are below
\* every id generated since
addQuestions(n) ==
    [i \in 1..n |-> [id |-> i - 1 - n, index |-> i - 1, correctAnswer |-> correctOption]]

isSelfPaced(q) == q.timeMode = "overall"

\* startQuiz: the update it writes, applied to the stored document q
startQuiz(q) == [q EXCEPT !.status = "waiting", !.currentQuestionIndex = -1]

\* a nextQuestion that adds one to the stored index instead of the caller's
nextQuestion_fromStored(q, currentIndex, totalQuestions) ==
    LET nextIndex == q.currentQuestionIndex + 1
    IN  IF nextIndex >= totalQuestions
        THEN [q EXCEPT !.status = "ended"]
        ELSE [q EXCEPT !.status = "live", !.currentQuestionIndex = nextIndex,
                       !.questionStartTime = now]

\* a nextQuestion that ends the quiz one Advance late
nextQuestion_lateEnd(q, currentIndex, totalQuestions) ==
    LET nextIndex == currentIndex + 1
    IN  IF nextIndex > totalQuestions
        THEN [q EXCEPT !.status = "ended", !.currentQuestionIndex = currentIndex]
        ELSE [q EXCEPT !.status = "live", !.currentQuestionIndex = nextIndex,
                       !.questionStartTime = now]

\* nextQuestion: the update it writes, computed from the caller's arguments
nextQuestion(q, currentIndex, totalQuestions) ==
    LET nextIndex == currentIndex + 1
    IN  IF nextIndex >= totalQuestions
        THEN [q EXCEPT !.status = "ended", !.currentQuestionIndex = currentIndex]
        ELSE [q EXCEPT !.status = "live", !.currentQuestionIndex = nextIndex,
                       !.questionStartTime = now]

startSelfPacedQuiz(q) ==
    [q EXCEPT !.status = "live", !.currentQuestionIndex = 0, !.quizStartTime = now]

\* an endQuiz that also leaves the last question
endQuiz_resetsIndex(q) == [q EXCEPT !.status = "ended", !.currentQuestionIndex = -1]

\* endQuiz: the update it writes
endQuiz(q) == [q EXCEPT !.status = "ended"]

\* restartQuiz: its first write, the update of the quiz document
restartQuiz(q) ==
    [q EXCEPT !.status = "waiting", !.currentQuestionIndex = -1,
              !.questionStartTime = NoTime]

\* the subcollections restartQuiz empties, in order, ending with its return
RestartStages_participantsOnly ==
    <<"update", "listParticipants", "deleteParticipants", "done">>

\* a restartQuiz that empties the subcollections before it updates the quiz
RestartStages_updateLast ==
    <<"listParticipants", "deleteParticipants",
      "listResponses", "deleteResponses", "update", "done">>

RestartStages ==
    <<"update", "listParticipants", "deleteParticipants",
      "listResponses", "deleteResponses", "done">>

\* the stage of restartQuiz that follows stage s
StageAfter(s) ==
    LET i == CHOOSE j \in 1..Len(RestartStages) : RestartStages[j] = s
    IN  RestartStages[i + 1]

(***************************************************************************)
(* Admin pages: ManageQuestions (Start), QuizControl, AdminDashboard       *)
(***************************************************************************)

\* what an admin page reads of the quiz snapshot its subscription delivered
QuizView(q) == [status |-> q.status, currentQuestionIndex |-> q.currentQuestionIndex]

HasParticipants == \E u \in Users : participants[u].exists

\* the React key of a Timer that has none
NoKey == <<-1, NoTime>>

\* QuizControl just mounted: its refs, no Timer rendered yet, no button clicked;
\* for a Timer rendered on its own, the props it was last given and the number of
\* onTimeUp calls since its startTime last changed
IdlePanel ==
    [autoAdvanceRef |-> FALSE, lastQuestionIndexRef |-> -1,
     mounted |-> FALSE, key |-> NoKey, startTimeRef |-> NoTime,
     hasEndedRef |-> FALSE, interval |-> FALSE, clicks |-> 0,
     startTime |-> NoTime, duration |-> 0, isActive |-> FALSE,
     initializedRef |-> FALSE, fired |-> 0]

\* no handler in progress on an admin page
IdleOp ==
    [op |-> "idle", ending |-> FALSE, currentIndex |-> -1, totalQuestions |-> 0,
     stage |-> "none", pendingParts |-> {}, pendingResps |-> {},
     alone |-> FALSE, hadData |-> FALSE, questionsBefore |-> <<>>,
     emails |-> <<>>, currentAllowed |-> <<>>, returned |-> 0, allowed |-> FALSE,
     questionId |-> 0, index |-> 0, docs |-> <<>>, updates |-> 0,
     pendingQuestions |-> {}, panel |-> IdlePanel]

\* the handler of page a has returned; an endQuiz call of the page may remain,
\* and the refs of the page are kept
Returned(a) ==
    [adminOp EXCEPT ![a] = [IdleOp EXCEPT !.ending = adminOp[a].ending,
                                          !.panel = adminOp[a].panel]]

\* history: another handler begins while a restartQuiz is in progress
Disturbed ==
    [b \in Admins |->
        IF adminOp[b].op = "restartQuiz" THEN [adminOp[b] EXCEPT !.alone = FALSE]
        ELSE adminOp[b]]

\* history: every page is at rest
AllQuiet ==
    /\ \A b \in Admins : adminOp[b] = IdleOp
    /\ \A c \in Clients : client[c].pc = "idle" /\ client[c].check = "none"

NextInFlight == \E b \in Admins : adminOp[b].op = "nextQuestion"

\* history: no race of nextQuestion calls from one state is being followed
NoRace == [base |-> -2, several |-> FALSE, clean |-> FALSE]

\* history: a nextQuestion call with argument k begins
RaceJoined(k) ==
    IF ~NextInFlight
    THEN (IF k = quiz.currentQuestionIndex
          THEN [base |-> k, several |-> FALSE, clean |-> TRUE] ELSE NoRace)
    ELSE (IF race.clean /\ k = race.base
          THEN [race EXCEPT !.several = TRUE] ELSE NoRace)

\* the quiz subscription of admin page a delivers the stored document
AdminQuizSnapshot(a) ==
    /\ view[a] # QuizView(quiz)
    /\ view' = [view EXCEPT ![a] = QuizView(quiz)]
    /\ UNCHANGED <<storeVars, viewParts, adminOp, race, clientVars, scoreVars>>

\* the participants subscription of admin page a delivers the collection
AdminParticipantsSnapshot(a) ==
    /\ viewParts[a] # HasParticipants
    /\ viewParts' = [viewParts EXCEPT ![a] = HasParticipants]
    /\ UNCHANGED <<storeVars, view, adminOp, race, clientVars, scoreVars>>

\* ManageQuestions: the Start Quiz button is shown and clicked
HandleStartQuiz(a) ==
    /\ adminOp[a].op = "idle"
    /\ view[a].status = "draft"
    /\ Len(questions) > 0
    /\ adminOp' = [Disturbed EXCEPT ![a].op = "startQuiz"]
    /\ UNCHANGED <<storeVars, view, viewParts, race, clientVars, scoreVars>>

StartQuizWrite(a) ==
    /\ adminOp[a].op = "startQuiz"
    /\ quiz' = startQuiz(quiz)
    /\ adminOp' = Returned(a)
    /\ race' = NoRace
    /\ UNCHANGED <<questions, participants, responses, nextId, now,
                   view, viewParts, clientVars, scoreVars>>

\* QuizControl: Start First Question (waiting) or Next Question (live)
HandleNextQuestion(a) ==
    /\ adminOp[a].op = "idle"
    /\ ~isSelfPaced(quiz)
    /\ \/ view[a].status = "waiting" /\ viewParts[a]
       \/ /\ view[a].status = "live"
          /\ view[a].currentQuestionIndex >= 0
          /\ view[a].currentQuestionIndex < Len(questions)
    /\ adminOp' = [Disturbed EXCEPT ![a].op = "nextQuestion",
                                    ![a].currentIndex = view[a].currentQuestionIndex,
                                    ![a].totalQuestions = Len(questions)]
    /\ race' = RaceJoined(view[a].currentQuestionIndex)
    /\ UNCHANGED <<storeVars, view, viewParts, clientVars, scoreVars>>

NextQuestionWrite(a) ==
    /\ adminOp[a].op = "nextQuestion"
    /\ quiz' = nextQuestion(quiz, adminOp[a].currentIndex, adminOp[a].totalQuestions)
    /\ adminOp' = Returned(a)
    /\ UNCHANGED <<questions, participants, responses, nextId, now,
                   view, viewParts, race, clientVars, scoreVars>>

\* QuizControl: Start Quiz of a self-paced quiz
HandleStartSelfPaced(a) ==
    /\ adminOp[a].op = "idle"
    /\ isSelfPaced(quiz)
    /\ view[a].status = "waiting"
    /\ viewParts[a]
    /\ adminOp' = [Disturbed EXCEPT ![a].op = "startSelfPacedQuiz"]
    /\ UNCHANGED <<storeVars, view, viewParts, race, clientVars, scoreVars>>

StartSelfPacedWrite(a) ==
    /\ adminOp[a].op = "startSelfPacedQuiz"
    /\ quiz' = startSelfPacedQuiz(quiz)
    /\ adminOp' = Returned(a)
    /\ race' = NoRace
    /\ UNCHANGED <<questions, participants, responses, nextId, now,
                   view, viewParts, clientVars, scoreVars>>

\* QuizControl: End Quiz; the handler does not set transitioning
HandleEndQuiz(a) ==
    /\ adminOp[a].op = "idle"
    /\ ~adminOp[a].ending
    /\ view[a].status = "live"
    /\ \/ isSelfPaced(quiz)
       \/ /\ view[a].currentQuestionIndex >= 0
          /\ view[a].currentQuestionIndex < Len(questions)
    /\ adminOp' = [Disturbed EXCEPT ![a].ending = TRUE]
    /\ UNCHANGED <<storeVars, view, viewParts, race, clientVars, scoreVars>>

EndQuizWrite(a) ==
    /\ adminOp[a].ending
    /\ quiz' = endQuiz(quiz)
    /\ adminOp' = [adminOp EXCEPT ![a].ending = FALSE]
    /\ race' = NoRace
    /\ UNCHANGED <<questions, participants, responses, nextId, now,
                   view, viewParts, clientVars, scoreVars>>

\* QuizControl or AdminDashboard: Restart, shown for an ended quiz
HandleRestartQuiz(a) ==
    /\ adminOp[a].op = "idle"
    /\ view[a].status = "ended"
    /\ adminOp' = [Disturbed EXCEPT
           ![a].op = "restartQuiz",
           ![a].stage = RestartStages[1],
           ![a].alone = AllQuiet,
           ![a].hadData = /\ responses # {}
                          /\ \E u \in Users : participants[u].score > 0,
           ![a].questionsBefore = questions]
    /\ UNCHANGED <<storeVars, view, viewParts, race, clientVars, scoreVars>>

\* deleteSubcollection of an empty snapshot: Promise.all([]) resolves at once
Skipped(o) == [o EXCEPT !.stage = StageAfter(o.stage)]

\* restartQuiz: one awaited request of it
RestartQuizStep(a) ==
    LET o == adminOp[a]
        on == [o EXCEPT !.stage = StageAfter(o.stage)]
    IN
    /\ o.op = "restartQuiz"
    /\ o.stage \notin {"done", "rejected", "failed"}
    /\ CASE o.stage = "update" ->
              /\ quiz' = restartQuiz(quiz)
              /\ race' = NoRace
              /\ adminOp' = [adminOp EXCEPT ![a] = on]
              /\ UNCHANGED <<participants, responses>>
         [] o.stage = "listParticipants" ->
              LET docs == {u \in Users : participants[u].exists}
              IN  /\ adminOp' = [adminOp EXCEPT ![a] =
                         IF docs = {} THEN Skipped(on)
                         ELSE [on EXCEPT !.pendingParts = docs]]
                  /\ UNCHANGED <<quiz, race, participants, responses>>
         [] o.stage = "deleteParticipants" ->
              \E u \in o.pendingParts :
                  /\ participants' = [participants EXCEPT ![u] = NoDoc]
                  /\ adminOp' = [adminOp EXCEPT ![a] =
                         IF o.pendingParts = {u} THEN [on EXCEPT !.pendingParts = {}]
                         ELSE [o EXCEPT !.pendingParts = @ \ {u}]]
                  /\ UNCHANGED <<quiz, race, responses>>
         [] o.stage = "listResponses" ->
              LET docs == {r.id : r \in responses}
              IN  /\ adminOp' = [adminOp EXCEPT ![a] =
                         IF docs = {} THEN Skipped(on)
                         ELSE [on EXCEPT !.pendingResps = docs]]
                  /\ UNCHANGED <<quiz, race, participants, responses>>
         [] o.stage = "deleteResponses" ->
              \E i \in o.pendingResps :
                  /\ responses' = {r \in responses : r.id # i}
                  /\ adminOp' = [adminOp EXCEPT ![a] =
                         IF o.pendingResps = {i} THEN [on EXCEPT !.pendingResps = {}]
                         ELSE [o EXCEPT !.pendingResps = @ \ {i}]]
                  /\ UNCHANGED <<quiz, race, participants>>
    /\ UNCHANGED <<questions, nextId, now, view, viewParts, clientVars, scoreVars>>

\* the handler continues after restartQuiz: setTransitioning(false)
RestartQuizReturn(a) ==
    /\ adminOp[a].op = "restartQuiz"
    /\ adminOp[a].stage = "done"
    /\ adminOp' = Returned(a)
    /\ UNCHANGED <<storeVars, view, viewParts, race, clientVars, scoreVars>>

\* restartQuiz: an awaited request is rejected; restartQuiz rethrows and the
\* handler's catch shows its alert. The update was rejected, or the cascade
\* failed after the update
RestartQuizFails(a) ==
    /\ adminOp[a].op = "restartQuiz"
    /\ adminOp[a].stage \in
           {"update", "listParticipants", "deleteParticipants",
            "listResponses", "deleteResponses"}
    /\ adminOp' = [adminOp EXCEPT ![a].stage =
           IF adminOp[a].stage = RestartStages[1] THEN "rejected" ELSE "failed"]
    /\ UNCHANGED <<storeVars, view, viewParts, race, clientVars, scoreVars>>

\* the alert is dismissed: setTransitioning(false)
RestartAlertDismissed(a) ==
    /\ adminOp[a].op = "restartQuiz"
    /\ adminOp[a].stage \in {"rejected", "failed"}
    /\ adminOp' = Returned(a)
    /\ UNCHANGED <<storeVars, view, viewParts, race, clientVars, scoreVars>>

(***************************************************************************)
(* ManageQuestions: addQuestion, updateQuestion, deleteQuestion            *)
(***************************************************************************)

\* largest number of question documents added, and of question documents stored
MaxAdded == 3

\* orderBy('index'): document d comes before document e; equal indices are
\* ordered by document id
Before(d, e) == d.index < e.index \/ (d.index = e.index /\ d.id < e.id)

\* the documents of docs listed as query(questionsRef, orderBy('index')) does
RECURSIVE orderBy(_)
orderBy(docs) ==
    IF docs = {} THEN <<>>
    ELSE LET d == CHOOSE d \in docs : \A e \in docs \ {d} : Before(d, e)
         IN  <<d>> \o orderBy(docs \ {d})

\* the question documents stored
QuestionDocs == {questions[i] : i \in 1..Len(questions)}

QuestionIds == {d.id : d \in QuestionDocs}

\* deleteQuestion's updateDoc(doc.ref, {index: newIndex}) without its update
reindexed_keepsIndex(d, newIndex) == d

\* deleteQuestion: updateDoc(doc.ref, {index: newIndex}), applied to document d
reindexed(d, newIndex) == [d EXCEPT !.index = newIndex]

\* addQuestion calls that have not added their document yet
AddsPending ==
    Cardinality({b \in Admins : /\ adminOp[b].op = "addQuestion"
                                /\ adminOp[b].stage \in {"getDocs", "addDoc"}})

\* the page shows the question form and the Edit and Delete buttons
ShowsDraft(a) == adminOp[a].op = "idle" /\ view[a].status = "draft"

\* handleSubmit with no question being edited: Add Question
HandleSubmitAdd(a) ==
    /\ ShowsDraft(a)
    /\ nextId + AddsPending < MaxAdded
    /\ Len(questions) + AddsPending < MaxAdded
    /\ adminOp' = [Disturbed EXCEPT ![a].op = "addQuestion",
                                    ![a].stage = "getDocs",
                                    ![a].questionsBefore = questions]
    /\ UNCHANGED <<storeVars, view, viewParts, race, clientVars, scoreVars>>

\* addQuestion: getDocs(questionsRef); index = snapshot.size
AddQuestionGet(a) ==
    /\ adminOp[a].op = "addQuestion"
    /\ adminOp[a].stage = "getDocs"
    /\ adminOp' = [adminOp EXCEPT ![a].index = Len(questions), ![a].stage = "addDoc"]
    /\ UNCHANGED <<storeVars, view, viewParts, race, clientVars, scoreVars>>

\* addQuestion: addDoc(questionsRef, newQuestion)
AddQuestionAdd(a) ==
    /\ adminOp[a].op = "addQuestion"
    /\ adminOp[a].stage = "addDoc"
    /\ questions' = orderBy(QuestionDocs \cup
           {[id |-> nextId, index |-> adminOp[a].index, correctAnswer |-> correctOption]})
    /\ nextId' = nextId + 1
    /\ adminOp' = [adminOp EXCEPT ![a].questionId = nextId, ![a].stage = "updateQuiz"]
    /\ UNCHANGED <<quiz, participants, responses, now,
                   view, viewParts, race, clientVars, scoreVars>>

\* addQuestion: updateQuiz(quizId, {totalQuestions: index + 1}), and its return
AddQuestionUpdate(a) ==
    /\ adminOp[a].op = "addQuestion"
    /\ adminOp[a].stage = "updateQuiz"
    /\ quiz' = [quiz EXCEPT !.totalQuestions = adminOp[a].index + 1]
    /\ adminOp' = Returned(a)
    /\ UNCHANGED <<questions, participants, responses, nextId, now,
                   view, viewParts, race, clientVars, scoreVars>>

\* handleSubmit with a question being edited: Update Question
HandleSubmitUpdate(a) ==
    \E questionId \in QuestionIds, correctAnswer \in Options :
        /\ ShowsDraft(a)
        /\ adminOp' = [Disturbed EXCEPT ![a].op = "updateQuestion",
                                        ![a].questionId = questionId,
                                        ![a].updates = correctAnswer]
        /\ UNCHANGED <<storeVars, view, viewParts, race, clientVars, scoreVars>>

\* updateQuestion: updateDoc(questionRef, updates), which fails on a missing
\* document, and its return
UpdateQuestionWrite(a) ==
    LET o == adminOp[a]
    IN
    /\ o.op = "updateQuestion"
    /\ questions' =
           orderBy({IF d.id = o.questionId THEN [d EXCEPT !.correctAnswer = o.updates]
                    ELSE d : d \in QuestionDocs})
    /\ adminOp' = Returned(a)
    /\ UNCHANGED <<quiz, participants, responses, nextId, now,
                   view, viewParts, race, clientVars, scoreVars>>

\* handleDeleteQuestion: Delete, confirmed
HandleDeleteQuestion(a) ==
    \E questionId \in QuestionIds :
        /\ ShowsDraft(a)
        /\ adminOp' = [Disturbed EXCEPT ![a].op = "deleteQuestion",
                                        ![a].stage = "deleteDoc",
                                        ![a].questionId = questionId,
                                        ![a].questionsBefore = questions]
        /\ UNCHANGED <<storeVars, view, viewParts, race, clientVars, scoreVars>>

\* deleteQuestion: deleteDoc of the question document
DeleteQuestionDelete(a) ==
    LET o == adminOp[a]
    IN
    /\ o.op = "deleteQuestion"
    /\ o.stage = "deleteDoc"
    /\ questions' = orderBy({d \in QuestionDocs : d.id # o.questionId})
    /\ adminOp' = [adminOp EXCEPT ![a].stage = "getDocs"]
    /\ UNCHANGED <<quiz, participants, responses, nextId, now,
                   view, viewParts, race, clientVars, scoreVars>>

\* deleteQuestion: getDocs(query(questionsRef, orderBy('index'))); newIndex = 0
DeleteQuestionGet(a) ==
    /\ adminOp[a].op = "deleteQuestion"
    /\ adminOp[a].stage = "getDocs"
    /\ adminOp' = [adminOp EXCEPT
           ![a].docs = [i \in 1..Len(questions) |-> questions[i].id],
           ![a].index = 0,
           ![a].stage = IF questions = <<>> THEN "updateQuiz" ELSE "reindex"]
    /\ UNCHANGED <<storeVars, view, viewParts, race, clientVars, scoreVars>>

\* deleteQuestion: one round of its loop, updateDoc(doc.ref, {index: newIndex});
\* the update of a document deleted meanwhile fails and the handler gives up
DeleteQuestionReindex(a) ==
    LET o == adminOp[a]
        id == Head(o.docs)
    IN
    /\ o.op = "deleteQuestion"
    /\ o.stage = "reindex"
    /\ IF id \in QuestionIds
       THEN /\ questions' =
                   orderBy({IF d.id = id THEN reindexed(d, o.index) ELSE d :
                            d \in QuestionDocs})
            /\ adminOp' = [adminOp EXCEPT
                   ![a].docs = Tail(o.docs),
                   ![a].index = o.index + 1,
                   ![a].stage = IF Tail(o.docs) = <<>> THEN "updateQuiz" ELSE "reindex"]
       ELSE /\ adminOp' = Returned(a)
            /\ UNCHANGED questions
    /\ UNCHANGED <<quiz, participants, responses, nextId, now,
                   view, viewParts, race, clientVars, scoreVars>>

\* deleteQuestion: updateQuiz(quizId, {totalQuestions: newIndex}), and its return
DeleteQuestionUpdate(a) ==
    /\ adminOp[a].op = "deleteQuestion"
    /\ adminOp[a].stage = "updateQuiz"
    /\ quiz' = [quiz EXCEPT !.totalQuestions = adminOp[a].index]
    /\ adminOp' = Returned(a)
    /\ UNCHANGED <<questions, participants, responses, nextId, now,
                   view, viewParts, race, clientVars, scoreVars>>

\* a ManageQuestions page edits the questions
EditNext(a) ==
    \/ HandleSubmitAdd(a)
    \/ AddQuestionGet(a)
    \/ AddQuestionAdd(a)
    \/ AddQuestionUpdate(a)
    \/ HandleSubmitUpdate(a)
    \/ UpdateQuestionWrite(a)
    \/ HandleDeleteQuestion(a)
    \/ DeleteQuestionDelete(a)
    \/ DeleteQuestionGet(a)
    \/ DeleteQuestionReindex(a)
    \/ DeleteQuestionUpdate(a)

(***************************************************************************)
(* Time budgets: CreateQuiz, createQuizFromJSON, the duration editor       *)
(***************************************************************************)

\* largest duration typed into the duration editor
MaxDuration == 121

\* time settings of a form or a JSON file; 0 stands for a missing value
SampleDurations == {0, 5, 9, 10, 30, 120, 121}

SampleTotals == {0, 59, 60, 300, 3600, 3601}

\* validateQuizData reports no error on the time settings of the form
validateQuizData(formData) ==
    ~(formData.totalTime = 0 \/ formData.totalTime < 60 \/ formData.totalTime > 3600)

\* CreateQuiz: the values of the timePerQuestion slider (min 10, max 120, step 5)
sliderValues == {t \in 10..120 : t % 5 = 0}

\* createQuizFromJSON throws no error on the time settings of jsonData
jsonTimesValid(jsonData) ==
    IF jsonData.timeMode = "overall"
    THEN ~(jsonData.totalTime = 0) /\ ~(jsonData.totalTime < 60 \/ jsonData.totalTime > 3600)
    ELSE /\ ~(jsonData.timePerQuestion = 0)
         /\ ~(jsonData.timePerQuestion < 10 \/ jsonData.timePerQuestion > 120)

\* createQuizFromJSON: the budgets stored, jsonData.x || default
jsonQuiz(jsonData) ==
    [createQuiz(jsonData.timeMode, 1) EXCEPT
        !.timePerQuestion = IF jsonData.timePerQuestion = 0 THEN defaultTimePerQuestion
                            ELSE jsonData.timePerQuestion,
        !.totalTime = IF jsonData.totalTime = 0 THEN defaultTotalTime
                      ELSE jsonData.totalTime]

\* handleSaveDuration: the duration typed passes the check and is saved
HandleSaveDuration(a) ==
    \E typed \in 0..MaxDuration :
        LET newDuration == IF typed = 0 THEN 5 ELSE typed
        IN  /\ ShowsDraft(a)
            /\ ~(newDuration < 5 \/ newDuration > 120)
            /\ adminOp' = [Disturbed EXCEPT ![a].op = "saveDuration",
                                            ![a].updates = newDuration]
            /\ UNCHANGED <<storeVars, view, viewParts, race, clientVars, scoreVars>>

\* handleSaveDuration: updateQuiz(quizId, {timePerQuestion: newDuration})
SaveDurationWrite(a) ==
    /\ adminOp[a].op = "saveDuration"
    /\ quiz' = [quiz EXCEPT !.timePerQuestion = adminOp[a].updates]
    /\ adminOp' = Returned(a)
    /\ UNCHANGED <<questions, participants, responses, nextId, now,
                   view, viewParts, race, clientVars, scoreVars>>

(***************************************************************************)
(* AdminDashboard: deleteQuiz                                              *)
(***************************************************************************)

\* the awaited requests of deleteQuiz, in order, ending with its return
DeleteStages ==
    <<"listQuestions", "deleteQuestions", "listParticipants", "deleteParticipants",
      "listResponses", "deleteResponses", "deleteDoc", "done">>

\* the stage of deleteQuiz that follows stage s
DeleteStageAfter(s) ==
    LET i == CHOOSE j \in 1..Len(DeleteStages) : DeleteStages[j] = s
    IN  DeleteStages[i + 1]

\* handleDeleteQuiz: Delete on the dashboard, confirmed
HandleDeleteQuiz(a) ==
    /\ adminOp[a].op = "idle"
    /\ quiz.exists
    /\ adminOp' = [adminOp EXCEPT ![a].op = "deleteQuiz", ![a].stage = DeleteStages[1]]
    /\ UNCHANGED <<storeVars, view, viewParts, race, clientVars, scoreVars>>

\* deleteQuiz: one awaited request of it; the deletes of a subcollection are
\* served in any order
DeleteQuizStep(a) ==
    LET o == adminOp[a]
        on == [o EXCEPT !.stage = DeleteStageAfter(o.stage)]
        skipped == [o EXCEPT !.stage = DeleteStageAfter(DeleteStageAfter(o.stage))]
    IN
    /\ o.op = "deleteQuiz"
    /\ o.stage # "done"
    /\ CASE o.stage = "listQuestions" ->
              /\ adminOp' = [adminOp EXCEPT ![a] =
                     IF QuestionIds = {} THEN skipped
                     ELSE [on EXCEPT !.pendingQuestions = QuestionIds]]
              /\ UNCHANGED <<quiz, questions, participants, responses>>
         [] o.stage = "deleteQuestions" ->
              \E i \in o.pendingQuestions :
                  /\ questions' = orderBy({d \in QuestionDocs : d.id # i})
                  /\ adminOp' = [adminOp EXCEPT ![a] =
                         IF o.pendingQuestions = {i} THEN [on EXCEPT !.pendingQuestions = {}]
                         ELSE [o EXCEPT !.pendingQuestions = @ \ {i}]]
                  /\ UNCHANGED <<quiz, participants, responses>>
         [] o.stage = "listParticipants" ->
              LET docs == {u \in Users : participants[u].exists}
              IN  /\ adminOp' = [adminOp EXCEPT ![a] =
                         IF docs = {} THEN skipped
                         ELSE [on EXCEPT !.pendingParts = docs]]
                  /\ UNCHANGED <<quiz, questions, participants, responses>>
         [] o.stage = "deleteParticipants" ->
              \E u \in o.pendingParts :
                  /\ participants' = [participants EXCEPT ![u] = NoDoc]
                  /\ adminOp' = [adminOp EXCEPT ![a] =
                         IF o.pendingParts = {u} THEN [on EXCEPT !.pendingParts = {}]
                         ELSE [o EXCEPT !.pendingParts = @ \ {u}]]
                  /\ UNCHANGED <<quiz, questions, responses>>
         [] o.stage = "listResponses" ->
              LET docs == {r.id : r \in responses}
              IN  /\ adminOp' = [adminOp EXCEPT ![a] =
                         IF docs = {} THEN skipped
                         ELSE [on EXCEPT !.pendingResps = docs]]
                  /\ UNCHANGED <<quiz, questions, participants, responses>>
         [] o.stage = "deleteResponses" ->
              \E i \in o.pendingResps :
                  /\ responses' = {r \in responses : r.id # i}
                  /\ adminOp' = [adminOp EXCEPT ![a] =
                         IF o.pendingResps = {i} THEN [on EXCEPT !.pendingResps = {}]
                         ELSE [o EXCEPT !.pendingResps = @ \ {i}]]
                  /\ UNCHANGED <<quiz, questions, participants>>
         [] o.stage = "deleteDoc" ->
              /\ quiz' = [quiz EXCEPT !.exists = FALSE]
              /\ adminOp' = [adminOp EXCEPT ![a] = on]
              /\ UNCHANGED <<questions, participants, responses>>
    /\ UNCHANGED <<nextId, now, view, viewParts, race, clientVars, scoreVars>>

\* handleDeleteQuiz continues after deleteQuiz: setDeleting(null)
DeleteQuizReturn(a) ==
    /\ adminOp[a].op = "deleteQuiz"
    /\ adminOp[a].stage = "done"
    /\ adminOp' = Returned(a)
    /\ UNCHANGED <<storeVars, view, viewParts, race, clientVars, scoreVars>>

(***************************************************************************)
(* The allowed-participants list of a quiz                                 *)
(***************************************************************************)

\* the characters of an email address: a blank, a letter in both cases, another
Chars == {" ", "a", "A", "b"}

\* longest email address
MaxEmailLen == 3

\* largest number of addresses in one addAllowedParticipants call
MaxBatch == 3

\* the email addresses: every string of at most MaxEmailLen characters
Emails == UNION {[1..n -> Chars] : n \in 0..MaxEmailLen}

\* the addresses of the batches: plain, upper case, padded, blank
SampleEmails == {<<"a">>, <<"A">>, <<" ", "b", " ">>, <<" ">>}

\* String.prototype.toLowerCase
toLowerCase(e) == [i \in 1..Len(e) |-> IF e[i] = "A" THEN "a" ELSE e[i]]

RECURSIVE trimStart(_)
trimStart(e) == IF e # <<>> /\ Head(e) = " " THEN trimStart(Tail(e)) ELSE e

RECURSIVE trimEnd(_)
trimEnd(e) ==
    IF e # <<>> /\ e[Len(e)] = " " THEN trimEnd(SubSeq(e, 1, Len(e) - 1)) ELSE e

\* String.prototype.trim
trim(e) == trimEnd(trimStart(e))

\* Array.prototype.includes
includes(list, e) == \E i \in 1..Len(list) : list[i] = e

\* addAllowedParticipants: emails.map(e => e.trim().toLowerCase()).filter(e => e)
normalizedEmails(emails) ==
    SelectSeq([i \in 1..Len(emails) |-> toLowerCase(trim(emails[i]))],
              LAMBDA e : e # <<>>)

\* addAllowedParticipants: the normalized emails not in the list read
newEmails(currentAllowed, emails) ==
    SelectSeq(normalizedEmails(emails), LAMBDA e : ~includes(currentAllowed, e))

\* removeAllowedParticipant: the list read without email.toLowerCase()
updatedAllowed(currentAllowed, email) ==
    SelectSeq(currentAllowed, LAMBDA e : e # toLowerCase(email))

\* isUserAllowedToJoin, on the quiz document read
isUserAllowedToJoin(quizData, userEmail) ==
    IF ~quizData.isRestricted THEN TRUE
    ELSE includes(quizData.allowedParticipants, toLowerCase(userEmail))

\* the operations of the hook on the allowed-participants list
AccessOps == {"addAllowedParticipants", "removeAllowedParticipant", "isUserAllowedToJoin"}

\* a caller invokes an operation on the list
AccessCall(a) ==
    \E op \in AccessOps :
    \E emails \in IF op = "addAllowedParticipants"
                  THEN UNION {[1..n -> SampleEmails] : n \in 0..MaxBatch}
                  ELSE {<<e>> : e \in Emails} :
        /\ adminOp[a] = IdleOp
        /\ adminOp' = [adminOp EXCEPT ![a] =
               [IdleOp EXCEPT !.op = op, !.stage = "get", !.emails = emails]]
        /\ UNCHANGED <<storeVars, view, viewParts, race, clientVars, scoreVars>>

\* ManageQuestions: the restriction switch, which refuses to restrict an empty list
HandleToggleRestriction(a) ==
    LET newRestricted == ~quiz.isRestricted
    IN
    /\ adminOp[a] = IdleOp
    /\ ~(newRestricted /\ Len(quiz.allowedParticipants) = 0)
    /\ adminOp' = [adminOp EXCEPT ![a] =
           [IdleOp EXCEPT !.op = "toggleQuizRestriction", !.stage = "update",
                          !.allowed = newRestricted]]
    /\ UNCHANGED <<storeVars, view, viewParts, race, clientVars, scoreVars>>

\* the getDoc of the quiz document that each operation begins with
AccessGet(a) ==
    LET o == adminOp[a]
    IN
    /\ o.op \in AccessOps
    /\ o.stage = "get"
    /\ adminOp' = [adminOp EXCEPT ![a] =
           CASE o.op = "addAllowedParticipants" ->
                    [o EXCEPT !.currentAllowed = quiz.allowedParticipants,
                              !.returned = Len(newEmails(quiz.allowedParticipants, o.emails)),
                              !.stage = IF newEmails(quiz.allowedParticipants, o.emails) # <<>>
                                        THEN "update" ELSE "returned"]
             [] o.op = "removeAllowedParticipant" ->
                    [o EXCEPT !.currentAllowed = quiz.allowedParticipants,
                              !.stage = "update"]
             [] o.op = "isUserAllowedToJoin" ->
                    [o EXCEPT !.allowed = isUserAllowedToJoin(quiz, o.emails[1]),
                              !.stage = "returned"]]
    /\ UNCHANGED <<storeVars, view, viewParts, race, clientVars, scoreVars>>

\* the updateDoc of addAllowedParticipants, removeAllowedParticipant and
\* toggleQuizRestriction
AccessUpdate(a) ==
    LET o == adminOp[a]
    IN
    /\ o.op \in AccessOps \cup {"toggleQuizRestriction"}
    /\ o.stage = "update"
    /\ quiz' =
           CASE o.op = "addAllowedParticipants" ->
                    [quiz EXCEPT !.allowedParticipants =
                                     o.currentAllowed \o newEmails(o.currentAllowed, o.emails),
                                 !.isRestricted = TRUE]
             [] o.op = "removeAllowedParticipant" ->
                    [quiz EXCEPT !.allowedParticipants =
                                     updatedAllowed(o.currentAllowed, o.emails[1]),
                                 !.isRestricted =
                                     Len(updatedAllowed(o.currentAllowed, o.emails[1])) > 0]
             [] o.op = "toggleQuizRestriction" ->
                    [quiz EXCEPT !.isRestricted = o.allowed]
    /\ adminOp' = [adminOp EXCEPT ![a].stage = "returned"]
    /\ UNCHANGED <<questions, participants, responses, nextId, now,
                   view, viewParts, race, clientVars, scoreVars>>

\* the caller continues with the result
AccessReturn(a) ==
    /\ adminOp[a].op \in AccessOps \cup {"toggleQuizRestriction"}
    /\ adminOp[a].stage = "returned"
    /\ adminOp' = Returned(a)
    /\ UNCHANGED <<storeVars, view, viewParts, race, clientVars, scoreVars>>

(***************************************************************************)
(* Participant pages: LiveQuestion with joinQuiz, submitAnswer, hasAnswered *)
(***************************************************************************)

\* largest number of response documents ever added
MaxResponses == 2

\* history: the participant document and the responses stored when a submitAnswer
\* call was made; no call is being followed
NoStore == [participant |-> NoDoc, responses |-> {}]

\* no option is selected
NoAnswer == -1

\* LiveQuestion just mounted: the selected option, the submitting state, the
\* refs its callbacks read, the submitAnswer calls awaited and those made
InitRefs ==
    [selectedAnswer |-> NoAnswer, selectedAnswerRef |-> NoAnswer,
     submitting |-> FALSE, submittingRef |-> FALSE,
     hasAnsweredRef |-> FALSE, answeredQuestionsRef |-> {},
     awaited |-> 0, calls |-> 0]

\* a participant page just loaded
InitClient ==
    [pc |-> "idle", questionIndex |-> -1, selectedAnswer |-> -1, isCorrect |-> FALSE,
     timeTaken |-> 0, points |-> 0, currentData |-> NoDoc, joinResult |-> NoDoc,
     listed |-> FALSE, hasAnswered |-> FALSE, answeredQuestions |-> {},
     prevQuestionIndex |-> -1, check |-> "none", before |-> NoStore,
     refs |-> InitRefs]

\* the locals of a handler, dropped when it returns
Locals(cl) ==
    [cl EXCEPT !.questionIndex = -1, !.selectedAnswer = -1, !.isCorrect = FALSE,
               !.timeTaken = 0, !.points = 0, !.currentData = NoDoc,
               !.before = NoStore]

\* LiveQuestion: the page shows the waiting screen instead of a question
isWaitingState(q) ==
    \/ q.status \in {"waiting", "draft"}
    \/ isSelfPaced(q) /\ q.quizStartTime = NoTime
    \/ ~isSelfPaced(q) /\ q.currentQuestionIndex < 0

\* the elements of a sequence equal to x
Count(seq, x) == Cardinality({i \in 1..Len(seq) : seq[i] = x})

\* hasAnswered: answeredQuestions.includes(questionIndex) of the document read
checkHasAnswered(snap, questionIndex) ==
    snap.exists /\ Count(snap.answeredQuestions, questionIndex) > 0

\* a joinQuiz that skips the check for an existing document
joinQuizCreates_always(existingSnap) == TRUE

\* joinQuiz: whether it goes on to create the document after reading it
joinQuizCreates(existingSnap) == ~existingSnap.exists

\* a participant reference that names one document for every user
participantRef_shared(c) == "u1"

\* doc(db, 'quizzes', quizId, 'participants', user.uid) on page c
participantRef(c) == clientUser[c]

\* the participants subscription of page c delivers the collection
ClientParticipantsSnapshot(c) ==
    /\ client[c].listed # participants[participantRef(c)].exists
    /\ client' = [client EXCEPT ![c].listed = participants[participantRef(c)].exists]
    /\ UNCHANGED <<storeVars, adminVars, clientUser, scoreVars>>

\* the join effect: the page has a quiz and its participants list does not hold
\* its user
JoinQuizCall(c) ==
    /\ client[c].pc = "idle"
    /\ quiz.exists
    /\ ~client[c].listed
    /\ client' = [client EXCEPT ![c].pc = "join_get", ![c].joinResult = NoDoc]
    /\ adminOp' = Disturbed
    /\ UNCHANGED <<storeVars, view, viewParts, race, clientUser, scoreVars>>

\* joinQuiz: getDoc, and the return of the existing document
JoinQuizGet(c) ==
    LET existingSnap == participants[participantRef(c)]
    IN
    /\ client[c].pc = "join_get"
    /\ client' = [client EXCEPT ![c] =
           IF joinQuizCreates(existingSnap)
           THEN [@ EXCEPT !.pc = "join_set"]
           ELSE [@ EXCEPT !.pc = "idle", !.joinResult = existingSnap]]
    /\ UNCHANGED <<storeVars, adminVars, clientUser, scoreVars>>

\* joinQuiz: setDoc of a new document, and its return
JoinQuizSet(c) ==
    /\ client[c].pc = "join_set"
    /\ participants' = [participants EXCEPT ![participantRef(c)] = participantData]
    /\ client' = [client EXCEPT ![c].pc = "idle", ![c].joinResult = participantData]
    /\ UNCHANGED <<quiz, questions, responses, nextId, now,
                   adminVars, clientUser, scoreVars>>

\* the effect on a new question index (per-question mode) reads the document
CheckAnsweredGet(c) ==
    /\ quiz.exists
    /\ ~isSelfPaced(quiz)
    /\ quiz.currentQuestionIndex >= 0
    /\ client[c].prevQuestionIndex # quiz.currentQuestionIndex
    /\ client[c].check = "none"
    /\ client' = [client EXCEPT
           ![c].prevQuestionIndex = quiz.currentQuestionIndex,
           ![c].check = IF checkHasAnswered(participants[participantRef(c)],
                                            quiz.currentQuestionIndex)
                        THEN "answered" ELSE "open"]
    /\ adminOp' = Disturbed
    /\ UNCHANGED <<storeVars, view, viewParts, race, clientUser, scoreVars>>

\* checkAnswered continues: setHasAnswered(answered)
CheckAnsweredSet(c) ==
    /\ client[c].check # "none"
    /\ client' = [client EXCEPT ![c].hasAnswered = (client[c].check = "answered"),
                                ![c].check = "none"]
    /\ UNCHANGED <<storeVars, adminVars, clientUser, scoreVars>>

\* handleSubmitAnswer up to the call of submitAnswer, which computes the points
HandleSubmitAnswer(c) ==
    \E currentSelectedAnswer \in Options, selfPacedIndex \in 0..(MaxQuestions - 1) :
        LET selfPaced == isSelfPaced(quiz)
            currentIndex == IF selfPaced THEN selfPacedIndex
                            ELSE quiz.currentQuestionIndex
            timeRef == IF selfPaced THEN quiz.quizStartTime ELSE quiz.questionStartTime
            startTime == IF timeRef = NoTime THEN now ELSE timeRef
            ms == Max(0, (now - startTime) * MsPerSecond)
            maxTime == IF selfPaced THEN quiz.totalTime ELSE quiz.timePerQuestion
        IN
        /\ client[c].pc = "idle"
        /\ quiz.exists
        /\ quiz.status = "live"
        /\ ~isWaitingState(quiz)
        /\ selfPaced \/ selfPacedIndex = 0
        /\ selfPaced \/ ~client[c].hasAnswered
        /\ ~selfPaced \/ currentIndex \notin client[c].answeredQuestions
        /\ currentIndex + 1 \in DOMAIN questions
        /\ nextId + Cardinality({d \in Clients :
               client[d].pc \in {"submit_get", "submit_set", "submit_add"}}) < MaxResponses
        /\ client' = [client EXCEPT ![c] = [@ EXCEPT
               !.pc = "submit_get",
               !.questionIndex = currentIndex,
               !.selectedAnswer = currentSelectedAnswer,
               !.isCorrect = (currentSelectedAnswer = questions[currentIndex + 1].correctAnswer),
               !.timeTaken = ms,
               !.points = calculateScore(
                   currentSelectedAnswer = questions[currentIndex + 1].correctAnswer,
                   SecondsFromMs(ms), maxTime)]]
        /\ adminOp' = Disturbed
        /\ UNCHANGED <<storeVars, view, viewParts, race, clientUser, scoreVars>>

\* handleSubmitAnswer after submitAnswer has returned
Submitted(cl) ==
    IF isSelfPaced(quiz)
    THEN [Locals(cl) EXCEPT !.pc = "idle",
                            !.answeredQuestions = @ \cup {cl.questionIndex}]
    ELSE [Locals(cl) EXCEPT !.pc = "idle", !.hasAnswered = TRUE]

\* submitAnswer: getDoc of the participant
SubmitGet(c) ==
    /\ client[c].pc = "submit_get"
    /\ client' = [client EXCEPT ![c].pc =
           IF participants[participantRef(c)].exists THEN "submit_add" ELSE "submit_set"]
    /\ UNCHANGED <<storeVars, adminVars, clientUser, scoreVars>>

\* submitAnswer: setDoc of a participant that did not exist
SubmitSet(c) ==
    /\ client[c].pc = "submit_set"
    /\ participants' = [participants EXCEPT ![participantRef(c)] = participantData]
    /\ client' = [client EXCEPT ![c].pc = "submit_add"]
    /\ UNCHANGED <<quiz, questions, responses, nextId, now,
                   adminVars, clientUser, scoreVars>>

\* submitAnswer: addDoc of the response
SubmitAdd(c) ==
    /\ client[c].pc = "submit_add"
    /\ responses' = responses \cup
           {[id |-> nextId, questionIndex |-> client[c].questionIndex,
             userId |-> clientUser[c], selectedAnswer |-> client[c].selectedAnswer,
             isCorrect |-> client[c].isCorrect, timeTaken |-> client[c].timeTaken]}
    /\ nextId' = nextId + 1
    /\ client' = [client EXCEPT ![c].pc = "submit_read"]
    /\ UNCHANGED <<quiz, questions, participants, now, adminVars, clientUser, scoreVars>>

\* submitAnswer: the second getDoc; without a document it returns the points
SubmitRead(c) ==
    LET currentSnap == participants[participantRef(c)]
    IN
    /\ client[c].pc = "submit_read"
    /\ client' = [client EXCEPT ![c] =
           IF currentSnap.exists
           THEN [@ EXCEPT !.pc = "submit_update", !.currentData = currentSnap]
           ELSE Submitted(@)]
    /\ UNCHANGED <<storeVars, adminVars, clientUser, scoreVars>>

\* submitAnswer: updateDoc of score and answeredQuestions, which fails on a
\* document deleted since it was read
SubmitUpdate(c) ==
    LET cl == client[c]
        u == participantRef(c)
    IN
    /\ cl.pc = "submit_update"
    /\ IF participants[u].exists
       THEN /\ participants' = [participants EXCEPT ![u] =
                   [@ EXCEPT !.score = cl.currentData.score + cl.points,
                             !.answeredQuestions =
                                 Append(cl.currentData.answeredQuestions, cl.questionIndex)]]
            /\ client' = [client EXCEPT ![c] = Submitted(cl)]
       ELSE /\ participants' = participants
            /\ client' = [client EXCEPT ![c] = [Locals(cl) EXCEPT !.pc = "idle"]]
    /\ UNCHANGED <<quiz, questions, responses, nextId, now,
                   adminVars, clientUser, scoreVars>>

\* a caller invokes submitAnswer(quizId, questionIndex, selectedAnswer, timeTaken,
\* isCorrect, maxTime), which computes the points
SubmitAnswerCall(c) ==
    \E questionIndex \in -1..MaxQuestions, selectedAnswer \in Options,
       isCorrect \in BOOLEAN :
        /\ client[c].pc = "idle"
        /\ nextId < MaxResponses
        /\ client' = [client EXCEPT ![c] = [@ EXCEPT
               !.pc = "submit_get",
               !.questionIndex = questionIndex,
               !.selectedAnswer = selectedAnswer,
               !.isCorrect = isCorrect,
               !.points = calculateScore(isCorrect, SecondsFromMs(0),
                              IF isSelfPaced(quiz) THEN quiz.totalTime
                              ELSE quiz.timePerQuestion),
               !.before = [participant |-> participants[participantRef(c)],
                           responses |-> responses]]]
        /\ UNCHANGED <<storeVars, adminVars, clientUser, scoreVars>>

\* the write submitAnswer awaits (setDoc, addDoc or updateDoc) is rejected;
\* submitAnswer rethrows the error to its caller
SubmitWriteFails(c) ==
    /\ client[c].pc \in {"submit_set", "submit_add", "submit_update"}
    /\ client' = [client EXCEPT ![c] = [Locals(@) EXCEPT !.pc = "idle"]]
    /\ UNCHANGED <<storeVars, adminVars, clientUser, scoreVars>>

(***************************************************************************)
(* LiveQuestion's callbacks read refs that effects copy from the state     *)
(* after each render; submitAnswer is followed from its call to its return. *)
(***************************************************************************)

\* invocations of handleSubmitAnswer followed on one page
MaxCalls == 3

\* the question the page shows: currentQuestionIndexRef, with selfPacedIndex
\* left at its initial 0
currentQuestionIndexRef == IF isSelfPaced(quiz) THEN 0 ELSE quiz.currentQuestionIndex

\* handleOptionClick(optionIndex)
HandleOptionClick(c) ==
    \E optionIndex \in Options :
        LET r == client[c].refs
        IN  /\ ~(r.hasAnsweredRef \/ r.submittingRef)
            /\ ~(isSelfPaced(quiz) /\ currentQuestionIndexRef \in r.answeredQuestionsRef)
            /\ r.selectedAnswer # optionIndex
            /\ client' = [client EXCEPT ![c].refs.selectedAnswer = optionIndex]
            /\ UNCHANGED <<storeVars, adminVars, clientUser, scoreVars>>

\* the page renders and its effects copy the state into the refs
SyncRefs(c) ==
    LET cl == client[c]
        synced == [cl.refs EXCEPT !.selectedAnswerRef = cl.refs.selectedAnswer,
                                  !.submittingRef = cl.refs.submitting,
                                  !.hasAnsweredRef = cl.hasAnswered,
                                  !.answeredQuestionsRef = cl.answeredQuestions]
    IN  /\ synced # cl.refs
        /\ client' = [client EXCEPT ![c].refs = synced]
        /\ UNCHANGED <<storeVars, adminVars, clientUser, scoreVars>>

\* handleSubmitAnswer is invoked; past its guards it sets submitting and
\* calls submitAnswer
InvokeSubmitAnswer(c) ==
    LET r == client[c].refs
        selfPaced == isSelfPaced(quiz)
        stopped == \/ r.selectedAnswerRef = NoAnswer \/ r.submittingRef
                   \/ ~selfPaced /\ r.hasAnsweredRef
                   \/ selfPaced /\ currentQuestionIndexRef \in r.answeredQuestionsRef
    IN  /\ quiz.status = "live"
        /\ ~isWaitingState(quiz)
        /\ currentQuestionIndexRef + 1 \in DOMAIN questions
        /\ r.calls < MaxCalls
        /\ ~stopped
        /\ client' = [client EXCEPT ![c].refs.submitting = TRUE,
                                    ![c].refs.awaited = @ + 1,
                                    ![c].refs.calls = @ + 1]
        /\ UNCHANGED <<storeVars, adminVars, clientUser, scoreVars>>

\* a submitAnswer call returns its points and handleSubmitAnswer continues
SubmitAnswerReturns(c) ==
    LET cl == client[c]
        selfPaced == isSelfPaced(quiz)
    IN  /\ cl.refs.awaited > 0
        /\ client' = [client EXCEPT ![c] = [cl EXCEPT
               !.hasAnswered = IF selfPaced THEN @ ELSE TRUE,
               !.answeredQuestions =
                   IF selfPaced THEN @ \cup {currentQuestionIndexRef} ELSE @,
               !.refs.selectedAnswer = IF selfPaced THEN NoAnswer ELSE @,
               !.refs.submitting = FALSE,
               !.refs.awaited = @ - 1]]
        /\ UNCHANGED <<storeVars, adminVars, clientUser, scoreVars>>

\* the participant reloads the page
Reload(c) ==
    /\ client[c].pc = "idle"
    /\ client[c].check = "none"
    /\ client[c] # InitClient
    /\ client' = [client EXCEPT ![c] = InitClient]
    /\ UNCHANGED <<storeVars, adminVars, clientUser, scoreVars>>

(***************************************************************************)
(* Specifications                                                          *)
(***************************************************************************)

TimeModes == {"perQuestion", "overall"}

\* no call of calculateScore is being followed
NoScoreCall ==
    [isCorrect |-> FALSE, ms |-> 0, totalTime |-> 0, returned |-> TRUE, points |-> 0]

\* the subcollections of a quiz the users of joined have joined, and the pages
\* just loaded
InitPages(joined) ==
    /\ participants = [u \in Users |-> IF u \in joined THEN participantData ELSE NoDoc]
    /\ responses = {}
    /\ nextId = 0
    /\ view = [a \in Admins |-> QuizView(quiz)]
    /\ viewParts = [a \in Admins |-> FALSE]
    /\ adminOp = [a \in Admins |-> IdleOp]
    /\ race = NoRace
    /\ client = [c \in Clients |-> InitClient]

\* a quiz just created, with its questions added, that one user has joined
InitDraft ==
    /\ now = 0
    /\ \E timeMode \in TimeModes, n \in 1..MaxQuestions :
           /\ quiz = createQuiz(timeMode, n)
           /\ questions = addQuestions(n)
    /\ InitPages({"u1"})

\* a quiz started by its admin: at its first question, or self-paced
InitLive(joined) ==
    /\ now = 0
    /\ \E timeMode \in TimeModes, n \in 1..MaxQuestions :
           /\ quiz = IF timeMode = "overall"
                     THEN startSelfPacedQuiz(startQuiz(createQuiz(timeMode, n)))
                     ELSE nextQuestion(startQuiz(createQuiz(timeMode, n)), -1, n)
           /\ questions = addQuestions(n)
    /\ InitPages(joined)

Init ==
    /\ InitDraft
    /\ clientUser = [c \in Clients |-> IF c = "c1" THEN "u1" ELSE "u2"]
    /\ scoreCall = NoScoreCall

\* the admin pages' handlers and subscriptions
AdminNext(a) ==
    \/ HandleStartQuiz(a)
    \/ StartQuizWrite(a)
    \/ HandleNextQuestion(a)
    \/ NextQuestionWrite(a)
    \/ HandleStartSelfPaced(a)
    \/ StartSelfPacedWrite(a)
    \/ HandleEndQuiz(a)
    \/ EndQuizWrite(a)
    \/ HandleRestartQuiz(a)
    \/ RestartQuizStep(a)
    \/ RestartQuizReturn(a)
    \/ AdminQuizSnapshot(a)
    \/ AdminParticipantsSnapshot(a)

\* a participant page that joins
JoinNext(c) ==
    \/ JoinQuizCall(c)
    \/ JoinQuizGet(c)
    \/ JoinQuizSet(c)
    \/ ClientParticipantsSnapshot(c)

\* a participant page that submits answers
SubmitNext(c) ==
    \/ HandleSubmitAnswer(c)
    \/ SubmitGet(c)
    \/ SubmitSet(c)
    \/ SubmitAdd(c)
    \/ SubmitRead(c)
    \/ SubmitUpdate(c)

\* Spec: two admin pages run the lifecycle of a quiz
Next == \E a \in Admins : AdminNext(a)

Spec == Init /\ [][Next]_vars

\* the operations of the hook that change the lifecycle
ApiOps == {"startQuiz", "nextQuestion", "startSelfPacedQuiz", "endQuiz", "restartQuiz"}

\* a caller invokes an operation of the hook, with its copy of the quiz
ApiCall(a) ==
    \E op \in ApiOps :
        /\ adminOp[a] = IdleOp
        /\ adminOp' = [adminOp EXCEPT ![a] =
               IF op = "endQuiz" THEN [IdleOp EXCEPT !.ending = TRUE]
               ELSE [IdleOp EXCEPT
                        !.op = op,
                        !.currentIndex = IF op = "nextQuestion"
                                         THEN view[a].currentQuestionIndex ELSE -1,
                        !.totalQuestions = IF op = "nextQuestion"
                                           THEN Len(questions) ELSE 0,
                        !.stage = IF op = "restartQuiz" THEN RestartStages[1] ELSE "none",
                        !.questionsBefore = IF op = "restartQuiz" THEN questions ELSE <<>>]]
        /\ race' = IF op = "nextQuestion"
                   THEN RaceJoined(view[a].currentQuestionIndex) ELSE race
        /\ UNCHANGED <<storeVars, view, viewParts, clientVars, scoreVars>>

\* SpecApi: one caller invokes the lifecycle operations in any order
NextApi ==
    \/ ApiCall("a1")
    \/ StartQuizWrite("a1")
    \/ NextQuestionWrite("a1")
    \/ StartSelfPacedWrite("a1")
    \/ EndQuizWrite("a1")
    \/ RestartQuizStep("a1")
    \/ RestartQuizReturn("a1")
    \/ AdminQuizSnapshot("a1")

SpecApi == Init /\ [][NextApi]_vars

InitRestart ==
    /\ InitLive({"u2"})
    /\ clientUser = [c \in Clients |-> IF c = "c1" THEN "u1" ELSE "u2"]
    /\ scoreCall = NoScoreCall

\* SpecRestart: two participants answer a live quiz that its admin ends and restarts
NextRestart ==
    \/ HandleEndQuiz("a1")
    \/ EndQuizWrite("a1")
    \/ HandleRestartQuiz("a1")
    \/ RestartQuizStep("a1")
    \/ RestartQuizReturn("a1")
    \/ AdminQuizSnapshot("a1")
    \/ JoinNext("c1")
    \/ SubmitNext("c1")

SpecRestart == InitRestart /\ [][NextRestart]_vars

\* SpecClicks: participants select options and invoke handleSubmitAnswer on
\* two pages of a live quiz
NextClicks ==
    \E c \in Clients :
        \/ HandleOptionClick(c)
        \/ SyncRefs(c)
        \/ InvokeSubmitAnswer(c)
        \/ SubmitAnswerReturns(c)

SpecClicks == InitRestart /\ [][NextClicks]_vars

\* no handler or effect of a participant page is in progress
PagesAtRest == \A c \in Clients : client[c].pc = "idle" /\ client[c].check = "none"

\* no handler of admin page a is in progress
AdminAtRest(a) == adminOp[a].op = "idle" /\ ~adminOp[a].ending

\* SpecAgain: a participant page stays open while the admin ends the quiz,
\* restarts it and starts it again, one handler at a time
NextAgain ==
    \/ PagesAtRest /\ quiz.status = "live" /\ HandleEndQuiz("a1")
    \/ PagesAtRest /\ HandleRestartQuiz("a1")
    \/ PagesAtRest /\ HandleNextQuestion("a1")
    \/ PagesAtRest /\ HandleStartSelfPaced("a1")
    \/ EndQuizWrite("a1")
    \/ RestartQuizStep("a1")
    \/ RestartQuizReturn("a1")
    \/ NextQuestionWrite("a1")
    \/ StartSelfPacedWrite("a1")
    \/ AdminQuizSnapshot("a1")
    \/ AdminParticipantsSnapshot("a1")
    \/ AdminAtRest("a1") /\ JoinNext("c1")
    \/ AdminAtRest("a1") /\ SubmitNext("c1")
    \/ AdminAtRest("a1") /\ CheckAnsweredGet("c1")
    \/ CheckAnsweredSet("c1")

SpecAgain == InitRestart /\ [][NextAgain]_vars

\* SpecCascade: the admin ends a live quiz and restarts it, a request of
\* restartQuiz may be rejected, and a participant page joins and answers
NextCascade ==
    \/ quiz.status = "live" /\ HandleEndQuiz("a1")
    \/ EndQuizWrite("a1")
    \/ HandleRestartQuiz("a1")
    \/ RestartQuizStep("a1")
    \/ RestartQuizFails("a1")
    \/ RestartAlertDismissed("a1")
    \/ RestartQuizReturn("a1")
    \/ AdminQuizSnapshot("a1")
    \/ JoinNext("c1")
    \/ SubmitNext("c1")

SpecCascade == InitRestart /\ [][NextCascade]_vars

InitPart ==
    /\ InitLive({})
    /\ \E u \in Users : clientUser = [c \in Clients |-> IF c = "c1" THEN "u1" ELSE u]
    /\ scoreCall = NoScoreCall

\* SpecPart: two participant pages, of one user or of two, on a live quiz
NextPart ==
    \/ JoinNext("c1")
    \/ CheckAnsweredGet("c1")
    \/ CheckAnsweredSet("c1")
    \/ Reload("c1")
    \/ \E c \in Clients : SubmitNext(c)

SpecPart == InitPart /\ [][NextPart]_vars

\* SpecTabs: two participant pages, of one user or of two, submit answers
NextTabs == \E c \in Clients : SubmitNext(c)

SpecTabs == InitPart /\ [][NextTabs]_vars

\* largest reading of the server clock
MaxClock == 2

\* the server clock, which serverTimestamp() reads, moves on
Tick ==
    /\ now < MaxClock
    /\ now' = now + 1
    /\ UNCHANGED <<quiz, questions, participants, responses, nextId,
                   adminVars, clientVars, scoreVars>>

\* SpecRun: two admin pages start a quiz and advance it while the clock runs
NextRun ==
    \/ Tick
    \/ \E a \in Admins :
           \/ HandleStartQuiz(a)
           \/ StartQuizWrite(a)
           \/ HandleNextQuestion(a)
           \/ NextQuestionWrite(a)
           \/ HandleStartSelfPaced(a)
           \/ StartSelfPacedWrite(a)
           \/ AdminQuizSnapshot(a)
           \/ AdminParticipantsSnapshot(a)

SpecRun == Init /\ [][NextRun]_vars

(***************************************************************************)
(* QuizControl's Timer: components/Timer.jsx counts the seconds since the  *)
(* start time of the quiz document and calls onTimeUp once when none is    *)
(* left; handleAutoNext and handleSelfPacedTimeUp are the callbacks.       *)
(***************************************************************************)

\* the shortest time per question CreateQuiz offers
shortestQuestion == 10

\* the shortest total time validateQuizData accepts
shortestTotal == 60

\* the seconds between two readings of the clock the model tells apart
ClockStep == 5

\* Next Question clicks per control panel while the quiz is live
MaxClicks == 1

\* the startTime prop of the Timer QuizControl renders for quiz document q
timerStart(q) == IF isSelfPaced(q) THEN q.quizStartTime ELSE q.questionStartTime

\* the duration prop of that Timer
timerDuration(q) == IF isSelfPaced(q) THEN q.totalTime ELSE q.timePerQuestion

\* the key prop of that Timer; the Timer of a self-paced quiz has none
timerKey(q) ==
    IF isSelfPaced(q) THEN NoKey ELSE <<q.currentQuestionIndex, q.questionStartTime>>

\* QuizControl renders a Timer for q: the quiz is live and, question by
\* question, the current question is among the questions
timerShown(q) ==
    /\ q.status = "live"
    /\ \/ isSelfPaced(q)
       \/ q.currentQuestionIndex >= 0 /\ q.currentQuestionIndex < Len(questions)

\* Timer: calculateTimeLeft, with the clock and the start time in seconds
calculateTimeLeft(startTime, duration) ==
    LET elapsed == now - startTime
    IN  IF startTime = NoTime THEN duration
        ELSE IF duration - elapsed > 0 THEN duration - elapsed ELSE 0

\* an effect that never re-arms the auto-advance
autoAdvanceEffect_never(p, index) == p

\* an effect that re-arms the auto-advance on every render
autoAdvanceEffect_everyRender(p, index) ==
    [p EXCEPT !.autoAdvanceRef = FALSE, !.lastQuestionIndexRef = index]

\* QuizControl's effect on quiz.currentQuestionIndex: re-arm the auto-advance
autoAdvanceEffect(p, index) ==
    IF index # p.lastQuestionIndexRef
    THEN [p EXCEPT !.autoAdvanceRef = FALSE, !.lastQuestionIndexRef = index]
    ELSE p

\* the Timer of panel p after QuizControl renders quiz document q: unmounted,
\* mounted afresh under a new key, or kept and given a new start time
timerRendered(p, q) ==
    IF ~timerShown(q)
    THEN [p EXCEPT !.mounted = FALSE, !.key = NoKey, !.startTimeRef = NoTime,
                   !.hasEndedRef = FALSE, !.interval = FALSE]
    ELSE IF ~p.mounted \/ p.key # timerKey(q)
    THEN [p EXCEPT !.mounted = TRUE, !.key = timerKey(q),
                   !.startTimeRef = timerStart(q),
                   !.hasEndedRef = FALSE, !.interval = TRUE]
    ELSE IF p.startTimeRef # timerStart(q)
    THEN [p EXCEPT !.startTimeRef = timerStart(q), !.hasEndedRef = FALSE]
    ELSE p

\* QuizControl: the quiz subscription delivers the stored document, the page
\* renders it and its effects run
QuizControlRender(a) ==
    LET p == autoAdvanceEffect(timerRendered(adminOp[a].panel, quiz),
                               quiz.currentQuestionIndex)
    IN  /\ view[a] # QuizView(quiz) \/ p # adminOp[a].panel
        /\ view' = [view EXCEPT ![a] = QuizView(quiz)]
        /\ adminOp' = [adminOp EXCEPT ![a].panel = p]
        /\ UNCHANGED <<storeVars, viewParts, race, clientVars, scoreVars>>

\* QuizControl: the Next Question button of a live quiz is clicked
ClickNextQuestion(a) ==
    /\ adminOp[a].panel.clicks < MaxClicks
    /\ adminOp[a].op = "idle"
    /\ ~isSelfPaced(quiz)
    /\ view[a].status = "live"
    /\ view[a].currentQuestionIndex >= 0
    /\ view[a].currentQuestionIndex < Len(questions)
    /\ adminOp' = [Disturbed EXCEPT ![a].op = "nextQuestion",
                                    ![a].currentIndex = view[a].currentQuestionIndex,
                                    ![a].totalQuestions = Len(questions),
                                    ![a].panel.clicks = @ + 1]
    /\ race' = RaceJoined(view[a].currentQuestionIndex)
    /\ UNCHANGED <<storeVars, view, viewParts, clientVars, scoreVars>>

\* handleAutoNext, then handleNextQuestion up to its await
HandleAutoNext(a) ==
    LET p == adminOp[a].panel
        timeUp == [adminOp EXCEPT ![a].panel.hasEndedRef = TRUE,
                                  ![a].panel.interval = FALSE]
    IN  IF p.autoAdvanceRef \/ adminOp[a].op # "idle"
        THEN /\ adminOp' = timeUp
             /\ UNCHANGED race
        ELSE /\ adminOp' = [timeUp EXCEPT
                               ![a].panel.autoAdvanceRef = TRUE,
                               ![a].op = "nextQuestion",
                               ![a].currentIndex = view[a].currentQuestionIndex,
                               ![a].totalQuestions = Len(questions)]
             /\ race' = RaceJoined(view[a].currentQuestionIndex)

\* handleSelfPacedTimeUp up to its await
HandleSelfPacedTimeUp(a) ==
    /\ adminOp' = [adminOp EXCEPT ![a].panel.hasEndedRef = TRUE,
                                  ![a].panel.interval = FALSE,
                                  ![a].ending = TRUE]
    /\ UNCHANGED race

\* Timer: the interval finds no time left, stops and calls onTimeUp
TimerInterval(a) ==
    /\ adminOp[a].panel.mounted
    /\ adminOp[a].panel.interval
    /\ ~adminOp[a].panel.hasEndedRef
    /\ calculateTimeLeft(adminOp[a].panel.startTimeRef, timerDuration(quiz)) <= 0
    /\ IF isSelfPaced(quiz) THEN HandleSelfPacedTimeUp(a) ELSE HandleAutoNext(a)
    /\ UNCHANGED <<storeVars, view, viewParts, clientVars, scoreVars>>

\* the clock moves on while the Timer of the stored quiz has time left; no
\* Timer tells the later readings apart
TimerTick ==
    /\ quiz.status = "live"
    /\ calculateTimeLeft(timerStart(quiz), timerDuration(quiz)) > 0
    /\ now' = now + ClockStep
    /\ UNCHANGED <<quiz, questions, participants, responses, nextId,
                   adminVars, clientVars, scoreVars>>

\* a live quiz with the shortest time budgets, its control panels just opened
InitTimer ==
    /\ now = 0
    /\ \E timeMode \in TimeModes, n \in 1..MaxQuestions :
           /\ quiz = LET q == [createQuiz(timeMode, n) EXCEPT
                                  !.timePerQuestion = shortestQuestion,
                                  !.totalTime = shortestTotal]
                     IN  IF timeMode = "overall"
                         THEN startSelfPacedQuiz(startQuiz(q))
                         ELSE nextQuestion(startQuiz(q), -1, n)
           /\ questions = addQuestions(n)
    /\ InitPages({"u1"})
    /\ clientUser = [c \in Clients |-> IF c = "c1" THEN "u1" ELSE "u2"]
    /\ scoreCall = NoScoreCall

\* SpecTimer: two control panels watch a live quiz while the clock runs
NextTimer ==
    \/ TimerTick
    \/ \E a \in Admins :
           \/ QuizControlRender(a)
           \/ TimerInterval(a)
           \/ ClickNextQuestion(a)
           \/ NextQuestionWrite(a)
           \/ EndQuizWrite(a)

\* the clock runs, snapshots arrive, intervals fire and store writes return
TimerFairness ==
    /\ WF_vars(TimerTick)
    /\ \A a \in Admins :
           /\ WF_vars(QuizControlRender(a))
           /\ WF_vars(TimerInterval(a))
           /\ WF_vars(NextQuestionWrite(a))
           /\ WF_vars(EndQuizWrite(a))

SpecTimer == InitTimer /\ [][NextTimer]_vars /\ TimerFairness

\* a quiz just created, without questions
InitEdit ==
    /\ now = 0
    /\ \E timeMode \in TimeModes : quiz = createQuiz(timeMode, 0)
    /\ questions = addQuestions(0)
    /\ InitPages({})
    /\ clientUser = [c \in Clients |-> IF c = "c1" THEN "u1" ELSE "u2"]
    /\ scoreCall = NoScoreCall

\* SpecEdit: one ManageQuestions page edits the questions of a draft quiz,
\* one operation at a time
NextEdit == EditNext("a1")

SpecEdit == InitEdit /\ [][NextEdit]_vars

\* SpecShared: two ManageQuestions pages add and delete questions of one draft quiz
NextShared ==
    \E a \in Admins :
        \/ HandleSubmitAdd(a)
        \/ AddQuestionGet(a)
        \/ AddQuestionAdd(a)
        \/ AddQuestionUpdate(a)
        \/ HandleDeleteQuestion(a)
        \/ DeleteQuestionDelete(a)
        \/ DeleteQuestionGet(a)
        \/ DeleteQuestionReindex(a)
        \/ DeleteQuestionUpdate(a)

SpecShared == InitEdit /\ [][NextShared]_vars

\* SpecQuestions: one page edits the questions while another page starts the
\* quiz and advances it
NextQuestions ==
    \/ EditNext("a1")
    \/ AdminQuizSnapshot("a1")
    \/ HandleStartQuiz("a2")
    \/ StartQuizWrite("a2")
    \/ HandleNextQuestion("a2")
    \/ NextQuestionWrite("a2")
    \/ HandleStartSelfPaced("a2")
    \/ StartSelfPacedWrite("a2")
    \/ AdminQuizSnapshot("a2")
    \/ AdminParticipantsSnapshot("a2")

SpecQuestions == Init /\ [][NextQuestions]_vars

\* a quiz just created from the form or from a JSON file that passed the checks
InitDuration ==
    /\ now = 0
    /\ \E timeMode \in TimeModes, timePerQuestion \in SampleDurations,
          totalTime \in SampleTotals, fromJSON \in BOOLEAN :
           LET data == [timeMode |-> timeMode, timePerQuestion |-> timePerQuestion,
                        totalTime |-> totalTime]
           IN  IF fromJSON
               THEN jsonTimesValid(data) /\ quiz = jsonQuiz(data)
               ELSE /\ timePerQuestion \in sliderValues
                    /\ validateQuizData(data)
                    /\ quiz = [createQuiz(timeMode, 1) EXCEPT
                                  !.timePerQuestion = timePerQuestion,
                                  !.totalTime = totalTime]
    /\ questions = addQuestions(1)
    /\ InitPages({})
    /\ clientUser = [c \in Clients |-> IF c = "c1" THEN "u1" ELSE "u2"]
    /\ scoreCall = NoScoreCall

\* SpecDuration: an admin edits the duration of a draft quiz
NextDuration ==
    \/ HandleSaveDuration("a1")
    \/ SaveDurationWrite("a1")

SpecDuration == InitDuration /\ [][NextDuration]_vars

\* user.email of the signed-in users
userEmail(u) == IF u = "u1" THEN <<"a">> ELSE <<"b">>

\* a live quiz restricted to the email of user u1, which nobody has joined yet
InitGate ==
    /\ now = 0
    /\ quiz = [nextQuestion(startQuiz(createQuiz("perQuestion", 1)), -1, 1) EXCEPT
                  !.allowedParticipants = newEmails(<<>>, <<userEmail("u1")>>),
                  !.isRestricted = TRUE]
    /\ questions = addQuestions(1)
    /\ InitPages({})
    /\ clientUser = [c \in Clients |-> IF c = "c1" THEN "u1" ELSE "u2"]
    /\ scoreCall = NoScoreCall

\* SpecGate: a listed user and an unlisted user open a restricted quiz
NextGate == \E c \in Clients : JoinNext(c) \/ SubmitNext(c)

SpecGate == InitGate /\ [][NextGate]_vars

\* SpecDelete: a participant joins and answers a live quiz that its admin deletes
NextDelete ==
    \/ HandleDeleteQuiz("a1")
    \/ DeleteQuizStep("a1")
    \/ DeleteQuizReturn("a1")
    \/ JoinNext("c1")
    \/ SubmitNext("c1")

SpecDelete == InitRestart /\ [][NextDelete]_vars

\* SpecSubmit: one caller invokes submitAnswer with any arguments, and writes
\* may be rejected
NextSubmit ==
    \/ SubmitAnswerCall("c1")
    \/ SubmitGet("c1")
    \/ SubmitSet("c1")
    \/ SubmitAdd("c1")
    \/ SubmitRead("c1")
    \/ SubmitUpdate("c1")
    \/ SubmitWriteFails("c1")

SpecSubmit == InitRestart /\ [][NextSubmit]_vars

\* a quiz just created, open to everyone
InitAccess ==
    /\ now = 0
    /\ quiz = createQuiz("perQuestion", 1)
    /\ questions = addQuestions(1)
    /\ InitPages({})
    /\ clientUser = [c \in Clients |-> IF c = "c1" THEN "u1" ELSE "u2"]
    /\ scoreCall = NoScoreCall

\* SpecAccess: one caller edits and queries the allowed-participants list
NextAccess ==
    \/ AccessCall("a1")
    \/ HandleToggleRestriction("a1")
    \/ AccessGet("a1")
    \/ AccessUpdate("a1")
    \/ AccessReturn("a1")

SpecAccess == InitAccess /\ [][NextAccess]_vars

\* SpecToggle: one admin page adds participants one at a time and switches the
\* restriction while another removes participants
NextToggle ==
    \/ /\ AccessCall("a1")
       /\ adminOp'["a1"].op = "addAllowedParticipants"
       /\ Len(adminOp'["a1"].emails) = 1
    \/ /\ AccessCall("a2")
       /\ adminOp'["a2"].op = "removeAllowedParticipant"
       /\ adminOp'["a2"].emails[1] \in SampleEmails
    \/ HandleToggleRestriction("a1")
    \/ \E a \in Admins :
           \/ AccessGet(a)
           \/ AccessUpdate(a)
           \/ AccessReturn(a)

SpecToggle == InitAccess /\ [][NextToggle]_vars

(***************************************************************************)
(* Specifications SpecCountdown and SpecCountdownAlt: one Timer, kept       *)
(* mounted, whose parent renders it with changing props.  SpecCountdown is  *)
(* components/Timer.jsx, SpecCountdownAlt the Timer of unnamed/part_000.    *)
(***************************************************************************)

\* largest reading of the clock while the Timer is watched
LastReading == 30

\* onTimeUp calls of one Timer that are counted
MaxFired == 2

\* the startTime props the parent passes: none, or a time not after the clock
StartTimes == {NoTime, 0, ClockStep, 2 * ClockStep}

\* the duration props the parent passes
Durations == {shortestQuestion, shortestQuestion + ClockStep}

\* Timer: the effect on [startTime, duration], which resets the refs when the
\* start time differs from the one recorded or on the first run
resetEffect(p, startTime) ==
    IF startTime # p.startTimeRef \/ ~p.initializedRef
    THEN [p EXCEPT !.hasEndedRef = FALSE, !.startTimeRef = startTime,
                   !.initializedRef = TRUE]
    ELSE p

\* components/Timer.jsx: the effect on [duration, isActive], after the cleanup
\* of its previous run has cleared the interval
countdownEffect(p, duration, isActive) ==
    IF ~isActive \/ p.hasEndedRef
    THEN [p EXCEPT !.interval = FALSE]
    ELSE [p EXCEPT !.interval = TRUE]

\* unnamed/part_000: the effect on [duration, isActive, startTimeMs], after the
\* cleanup of its previous run has cleared the interval
countdownEffect_part000(p, startTime, duration, isActive) ==
    IF ~isActive \/ startTime = NoTime
    THEN [p EXCEPT !.interval = FALSE]
    ELSE IF calculateTimeLeft(startTime, duration) <= 0
    THEN [p EXCEPT !.hasEndedRef = TRUE, !.interval = FALSE, !.fired = @ + 1]
    ELSE [p EXCEPT !.hasEndedRef = FALSE, !.interval = TRUE]

\* the Timer of panel p after a render with the given props and the effects
\* whose dependencies changed; every effect runs on mount.  alt tells the
\* Timer of unnamed/part_000 from components/Timer.jsx
timerProps(p, startTime, duration, isActive, alt) ==
    LET first == ~p.mounted
        props == IF first
                 THEN [p EXCEPT !.mounted = TRUE, !.startTime = startTime,
                                !.duration = duration, !.isActive = isActive,
                                !.startTimeRef = startTime, !.hasEndedRef = FALSE,
                                !.initializedRef = FALSE, !.interval = FALSE,
                                !.fired = 0]
                 ELSE [p EXCEPT !.startTime = startTime, !.duration = duration,
                                !.isActive = isActive,
                                !.fired = IF startTime # p.startTime THEN 0 ELSE @]
        reset == IF first \/ startTime # p.startTime \/ duration # p.duration
                 THEN resetEffect(props, startTime)
                 ELSE props
    IN  IF alt
        THEN IF first \/ duration # p.duration \/ isActive # p.isActive
                      \/ startTime # p.startTime
             THEN countdownEffect_part000(reset, startTime, duration, isActive)
             ELSE reset
        ELSE IF first \/ duration # p.duration \/ isActive # p.isActive
             THEN countdownEffect(reset, duration, isActive)
             ELSE reset

\* the parent renders the Timer with props that differ from the last ones
TimerRender(a, alt) ==
    \E startTime \in StartTimes, duration \in Durations, isActive \in BOOLEAN :
        LET p == adminOp[a].panel
        IN  /\ p.fired < MaxFired
            /\ startTime = NoTime \/ startTime <= now
            /\ \/ ~p.mounted
               \/ <<startTime, duration, isActive>> # <<p.startTime, p.duration, p.isActive>>
            /\ adminOp' = [adminOp EXCEPT ![a].panel =
                   timerProps(p, startTime, duration, isActive, alt)]
            /\ UNCHANGED <<storeVars, view, viewParts, race, clientVars, scoreVars>>

\* Timer: the interval callback finds no time left, stops and calls onTimeUp
TimerTimeUp(a) ==
    LET p == adminOp[a].panel
    IN  /\ p.mounted
        /\ p.interval
        /\ p.fired < MaxFired
        /\ calculateTimeLeft(p.startTimeRef, p.duration) <= 0
        /\ ~p.hasEndedRef
        /\ adminOp' = [adminOp EXCEPT ![a].panel.hasEndedRef = TRUE,
                                      ![a].panel.interval = FALSE,
                                      ![a].panel.fired = @ + 1]
        /\ UNCHANGED <<storeVars, view, viewParts, race, clientVars, scoreVars>>

\* the clock moves on
CountdownTick ==
    /\ now < LastReading
    /\ now' = now + ClockStep
    /\ UNCHANGED <<quiz, questions, participants, responses, nextId,
                   adminVars, clientVars, scoreVars>>

\* SpecCountdown: the Timer of components/Timer.jsx
NextCountdown ==
    \/ TimerRender("a1", FALSE)
    \/ TimerTimeUp("a1")
    \/ CountdownTick

SpecCountdown == InitAccess /\ [][NextCountdown]_vars

\* SpecCountdownAlt: the Timer of unnamed/part_000
NextCountdownAlt ==
    \/ TimerRender("a1", TRUE)
    \/ TimerTimeUp("a1")
    \/ CountdownTick

SpecCountdownAlt == InitAccess /\ [][NextCountdownAlt]_vars

(***************************************************************************)
(* Specification SpecScore: calculateScore applied to bounded inputs       *)
(***************************************************************************)

\* largest whole number of seconds of a timeTaken
MaxSeconds == 32

\* largest time budget, in seconds
MaxBudget == 30

\* smallest time budget the duration editor stores
MinBudget == 5

\* the time budgets of a call: the storable ones, and 0 for the division by zero
Budgets == {0} \cup MinBudget..MaxBudget

\* the millisecond parts of a timeTaken
SampleMillis == {0, 340, 500}

InitScore ==
    \E c \in BOOLEAN, s \in 0..MaxSeconds, f \in SampleMillis, b \in Budgets :
        /\ scoreCall = [isCorrect |-> c, ms |-> s * MsPerSecond + f, totalTime |-> b,
                        returned |-> FALSE, points |-> 0]
        /\ now = 0
        /\ quiz = createQuiz("perQuestion", 1)
        /\ questions = addQuestions(1)
        /\ InitPages({})
        /\ clientUser = [u \in Clients |-> "u1"]

ScoreCall ==
    /\ ~scoreCall.returned
    /\ scoreCall' = [scoreCall EXCEPT
           !.returned = TRUE,
           !.points = calculateScore(scoreCall.isCorrect,
                                     SecondsFromMs(scoreCall.ms),
                                     scoreCall.totalTime)]
    /\ UNCHANGED <<storeVars, adminVars, clientVars>>

NextScore == ScoreCall

SpecScore == InitScore /\ [][NextScore]_vars

(***************************************************************************)
(* Properties of calculateScore (checked under SpecScore)                  *)
(***************************************************************************)

\* the speed bonus in exact arithmetic: floor((1 - t/T) * 50), t = ms / 1000
ExactBonus(ms, totalTime) ==
    ((totalTime * MsPerSecond - ms) * maxBonus) \div (totalTime * MsPerSecond)

\* C8: calculateScore returns 0 for every input with isCorrect = false,
\* whatever timeTaken and the time budget (0 included) are.
C8_IncorrectScoresZero ==
    (scoreCall.returned /\ ~scoreCall.isCorrect) => scoreCall.points = 0

C8_Witness ==
    /\ scoreCall.returned /\ ~scoreCall.isCorrect
    /\ scoreCall.ms = 0 /\ scoreCall.totalTime = MaxBudget
    /\ scoreCall.points = 0

\* C9: for a correct answer with 0 <= timeTaken <= budget and budget > 0 the
\* score is an integer between 100 and 150 inclusive.
C9_CorrectScoreInRange ==
    ( /\ scoreCall.returned /\ scoreCall.isCorrect
      /\ scoreCall.totalTime > 0
      /\ scoreCall.ms <= scoreCall.totalTime * MsPerSecond )
    => scoreCall.points \in baseScore..(baseScore + maxBonus)

C9_Witness ==
    /\ scoreCall.returned /\ scoreCall.isCorrect
    /\ scoreCall.totalTime > 0
    /\ scoreCall.ms > 0 /\ scoreCall.ms < scoreCall.totalTime * MsPerSecond
    /\ scoreCall.points > baseScore /\ scoreCall.points < baseScore + maxBonus

\* C10: for a correct answer the score is 100 + max(0, floor((1 - timeTaken /
\* budget) * 50)); timeTaken = 0 gives 150, timeTaken >= budget gives 100, and
\* timeTaken = 5 with budget = 30 gives 141.
C10_ScoreIsExactFormula ==
    (scoreCall.returned /\ scoreCall.isCorrect /\ scoreCall.totalTime > 0)
    => /\ scoreCall.points =
              baseScore + Max(0, ExactBonus(scoreCall.ms, scoreCall.totalTime))
       /\ scoreCall.ms = 0 => scoreCall.points = 150
       /\ scoreCall.ms >= scoreCall.totalTime * MsPerSecond => scoreCall.points = 100
       /\ (scoreCall.ms = 5000 /\ scoreCall.totalTime = 30) => scoreCall.points = 141

(***************************************************************************)
(* Properties of the lifecycle operations (Spec, SpecApi, SpecRestart)     *)
(***************************************************************************)

\* a race of several nextQuestion calls from one stored index has completed,
\* and no other operation has written the quiz since it began
RaceCompleted == race.several /\ race.clean /\ ~NextInFlight

RestartWrites(a) ==
    /\ adminOp[a].op = "restartQuiz"
    /\ adminOp[a].stage = "update"
    /\ adminOp'[a].stage # "update"

\* the changes of status the lifecycle allows, Restart aside
LegalChange(old, new) ==
    \/ old = "draft" /\ new = "waiting"
    \/ old = "waiting" /\ new = "live"
    \/ old = "live" /\ new = "ended"

\* C3: every change of the stored status is draft -> waiting, waiting -> live,
\* live -> ended, or the write of a Restart, which sets waiting.
C3_LegalLifecycleOnly ==
    [][quiz'.status # quiz.status =>
          \/ LegalChange(quiz.status, quiz'.status)
          \/ (\E a \in Admins : RestartWrites(a)) /\ quiz'.status = "waiting"]_vars

\* C4: a nextQuestion call that reaches a quiz whose status is draft leaves
\* the quiz document as it was.
C4_AdvanceOnDraftRejected ==
    [][\A a \in Admins :
          (adminOp[a].op = "nextQuestion" /\ adminOp'[a].op = "idle"
           /\ quiz.status = "draft") => quiz' = quiz]_vars

\* C5: when restartQuiz has completed and no other handler ran while it did,
\* the quiz has no response, no participant with a non-zero score or a
\* non-empty answeredQuestions, and its questions and totalQuestions are what
\* they were when it began.
C5_RestartClearsParticipantData ==
    \A a \in Admins :
        (adminOp[a].op = "restartQuiz" /\ adminOp[a].stage = "done" /\ adminOp[a].alone)
        => /\ responses = {}
           /\ \A u \in Users :
                  participants[u].exists =>
                      participants[u].score = 0 /\ participants[u].answeredQuestions = <<>>
           /\ questions = adminOp[a].questionsBefore
           /\ quiz.totalQuestions = Len(adminOp[a].questionsBefore)

C5_Witness ==
    \E a \in Admins :
        /\ adminOp[a].op = "restartQuiz"
        /\ adminOp[a].stage = "done"
        /\ adminOp[a].alone
        /\ adminOp[a].hadData

\* C6: the write of a Restart leaves the quiz with status waiting,
\* currentQuestionIndex -1, and questionStartTime and quizStartTime cleared.
C6_RestartClearsTimestamps ==
    [][(\E a \in Admins : RestartWrites(a)) =>
          /\ quiz'.status = "waiting"
          /\ quiz'.currentQuestionIndex = -1
          /\ quiz'.questionStartTime = NoTime
          /\ quiz'.quizStartTime = NoTime]_vars

(***************************************************************************)
(* Properties of starting and advancing a quiz (SpecRun)                   *)
(***************************************************************************)

\* page a's call of operation op completes in this step
Completes(a, op) == adminOp[a].op = op /\ adminOp'[a].op = "idle"

\* C14: in a per-question quiz, Start leaves the quiz waiting before its first
\* question, and each Advance called with the stored index k makes question
\* k+1 live while there is one and ends the quiz otherwise, so that the
\* questions 0..N-1 go live in order and one further Advance ends the quiz.
C14_AdvanceWalksQuestions ==
    [][\A a \in Admins :
          /\ Completes(a, "startQuiz")
             => quiz'.status = "waiting" /\ quiz'.currentQuestionIndex = -1
          /\ (/\ Completes(a, "nextQuestion")
              /\ adminOp[a].currentIndex = quiz.currentQuestionIndex
              /\ adminOp[a].totalQuestions = quiz.totalQuestions)
             => IF quiz.currentQuestionIndex + 1 < quiz.totalQuestions
                THEN /\ quiz'.status = "live"
                     /\ quiz'.currentQuestionIndex = quiz.currentQuestionIndex + 1
                ELSE quiz'.status = "ended"]_vars

\* the last of the largest number of questions was live and one further
\* Advance ended the quiz
C14_Witness ==
    /\ quiz.timeMode = "perQuestion"
    /\ quiz.totalQuestions = MaxQuestions
    /\ quiz.status = "ended"
    /\ quiz.currentQuestionIndex = MaxQuestions - 1

\* C15: every Advance that makes a question live stamps questionStartTime with
\* the server clock, and the Advance that makes question 0 live stamps
\* quizStartTime as well.
C15_AdvanceStampsTimes ==
    [][\A a \in Admins :
          (/\ Completes(a, "nextQuestion")
           /\ adminOp[a].currentIndex + 1 < adminOp[a].totalQuestions)
          => /\ quiz'.questionStartTime = now
             /\ adminOp[a].currentIndex + 1 = 0 => quiz'.quizStartTime = now]_vars

\* C16: StartSelfPaced makes the quiz live at index 0 and stamps quizStartTime
\* with the server clock the first time; a further StartSelfPaced leaves
\* quizStartTime as it was.
C16_SelfPacedStampsOnce ==
    [][\A a \in Admins :
          Completes(a, "startSelfPacedQuiz")
          => /\ quiz'.status = "live"
             /\ quiz'.currentQuestionIndex = 0
             /\ quiz'.quizStartTime =
                    IF quiz.quizStartTime = NoTime THEN now ELSE quiz.quizStartTime]_vars

(***************************************************************************)
(* Properties of ending a quiz (SpecRestart)                               *)
(***************************************************************************)

\* C17: endQuiz leaves a quiz that is already ended, and everything stored
\* with it, unchanged; on a live quiz it changes the status to ended and
\* nothing else.
C17_EndQuizChangesStatusOnly ==
    [][\A a \in Admins :
          (adminOp[a].ending /\ ~adminOp'[a].ending)
          => /\ quiz' = [quiz EXCEPT !.status = "ended"]
             /\ quiz.status = "ended" => quiz' = quiz
             /\ UNCHANGED <<questions, participants, responses>>]_vars

\* a quiz with a question shown, a scored answer and its response was ended
C17_Witness ==
    /\ quiz.status = "ended"
    /\ quiz.currentQuestionIndex >= 0
    /\ quiz.questionStartTime # NoTime \/ quiz.quizStartTime # NoTime
    /\ responses # {}
    /\ \E u \in Users : participants[u].exists /\ participants[u].score > 0

(***************************************************************************)
(* Properties of the question operations (SpecQuestions, SpecEdit)         *)
(***************************************************************************)

\* C18: whenever the quiz is live, currentQuestionIndex is below
\* totalQuestions and a question with that index is stored.
C18_LiveIndexInRange ==
    quiz.status = "live"
    => /\ quiz.currentQuestionIndex < quiz.totalQuestions
       /\ \E d \in QuestionDocs : d.index = quiz.currentQuestionIndex

\* C19: addQuestion, updateQuestion and deleteQuestion change the questions
\* and totalQuestions only while the stored status is draft.
C19_QuestionsChangeInDraftOnly ==
    [][(questions' # questions \/ quiz'.totalQuestions # quiz.totalQuestions)
       => quiz.status = "draft"]_vars

\* the indices are 0..n-1 in order and totalQuestions is their number n
Contiguous ==
    /\ \A i \in 1..Len(questions) : questions[i].index = i - 1
    /\ quiz.totalQuestions = Len(questions)

\* the ids of a list of question documents, in the order of the list
Ids(docs) == [i \in 1..Len(docs) |-> docs[i].id]

\* C20: when an addQuestion or a deleteQuestion that ran alone completes, the
\* indices are exactly 0..n-1 and totalQuestions is n; the questions there
\* were keep their order, a new question comes last, a deleted one is gone.
C20_IndicesContiguous ==
    [][\A a \in Admins :
          LET o == adminOp[a]
          IN  /\ Completes(a, "addQuestion")
                 => /\ Contiguous'
                    /\ Ids(questions') = Append(Ids(o.questionsBefore), o.questionId)
              /\ Completes(a, "deleteQuestion")
                 => /\ Contiguous'
                    /\ Ids(questions') =
                           SelectSeq(Ids(o.questionsBefore), LAMBDA i : i # o.questionId)]_vars

\* the second of three questions added was deleted, and the third moved up
C20_Witness ==
    /\ adminOp["a1"].op = "idle"
    /\ Ids(questions) = <<0, 2>>
    /\ Contiguous

(***************************************************************************)
(* Properties of the allowed-participants list (SpecAccess)                *)
(***************************************************************************)

\* the normalized form of an email: trimmed and lower-cased
Normalize(e) == toLowerCase(trim(e))

Range(seq) == {seq[i] : i \in 1..Len(seq)}

NoDuplicates(seq) == Cardinality(Range(seq)) = Len(seq)

\* C11: isUserAllowedToJoin returns true for every email when the quiz is not
\* restricted, and otherwise returns true exactly when the trimmed, lower-cased
\* email is in allowedParticipants.
C11_AccessGate ==
    [][\A a \in Admins :
          (/\ adminOp[a].op = "isUserAllowedToJoin"
           /\ adminOp[a].stage = "get"
           /\ adminOp'[a].stage = "returned")
          => adminOp'[a].allowed =
                 (\/ ~quiz.isRestricted
                  \/ Normalize(adminOp[a].emails[1]) \in Range(quiz.allowedParticipants))]_vars

\* C12: when addAllowedParticipants has returned from a call on a list without
\* duplicates, the list holds what it held plus the distinct normalized emails
\* of the call that it lacked, each once; the call returned their number and,
\* if it added any, the quiz is restricted.
C12_AddAllowedAddsDistinct ==
    \A a \in Admins :
        LET o == adminOp[a]
            wanted == Range(normalizedEmails(o.emails)) \ Range(o.currentAllowed)
        IN  (/\ o.op = "addAllowedParticipants"
             /\ o.stage = "returned"
             /\ NoDuplicates(o.currentAllowed))
            => /\ o.returned = Cardinality(wanted)
               /\ Range(quiz.allowedParticipants) = Range(o.currentAllowed) \cup wanted
               /\ NoDuplicates(quiz.allowedParticipants)
               /\ wanted # {} => quiz.isRestricted

\* C13: when removeAllowedParticipant has returned, the normalized email is
\* not in allowedParticipants, and an empty list leaves the quiz unrestricted.
C13_RemoveAllowedRemoves ==
    \A a \in Admins :
        LET o == adminOp[a]
        IN  (o.op = "removeAllowedParticipant" /\ o.stage = "returned")
            => /\ Normalize(o.emails[1]) \notin Range(quiz.allowedParticipants)
               /\ quiz.allowedParticipants = <<>> => ~quiz.isRestricted

(***************************************************************************)
(* Properties of the participant operations (SpecPart)                     *)
(***************************************************************************)

AllSubmitted == \A c \in Clients : client[c].pc = "idle"

\* C1: once every submitAnswer call has returned, each participant has at most
\* one response per question index, and each index at most once in
\* answeredQuestions (one score increment per index).
C1_AtMostOnceScoring ==
    AllSubmitted =>
        \A u \in Users, q \in 0..(MaxQuestions - 1) :
            /\ Cardinality({r \in responses : r.userId = u /\ r.questionIndex = q}) <= 1
            /\ Count(participants[u].answeredQuestions, q) <= 1

\* C7: a joinQuiz call whose getDoc finds the participant's document returns
\* that document and writes nothing: the participants and the responses are
\* unchanged.
C7_JoinIdempotent ==
    [][\A c \in Clients :
          (/\ client[c].pc = "join_get"
           /\ client'[c].pc # "join_get"
           /\ participants[clientUser[c]].exists)
          => /\ client'[c].pc = "idle"
             /\ client'[c].joinResult = participants[clientUser[c]]
             /\ participants' = participants
             /\ responses' = responses]_vars

C7_Witness ==
    \E c \in Clients :
        /\ client[c].pc = "idle"
        /\ client[c].joinResult.exists
        /\ client[c].joinResult.score > 0
        /\ client[c].joinResult.answeredQuestions # <<>>
        /\ client[c].joinResult = participants[clientUser[c]]

(***************************************************************************)
(* Properties of the participant records (SpecPart, SpecQuestions)         *)
(***************************************************************************)

\* C21: the stored score of a participant is never negative, and no step that
\* leaves the participant's record in place lowers it (Restart deletes the
\* record).
C21_ScoreNeverDecreases ==
    [][\A u \in Users :
          (participants[u].exists /\ participants'[u].exists)
          => /\ participants'[u].score >= 0
             /\ participants'[u].score >= participants[u].score]_vars

\* C22: whenever a startQuiz call writes the status waiting, at least one
\* question is stored.
C22_StartNeedsQuestion ==
    [][\A a \in Admins : Completes(a, "startQuiz") => questions # <<>>]_vars

\* C30: whenever no addQuestion or deleteQuestion of the two pages sharing the
\* quiz is in progress, the question indices are exactly 0..n-1 and
\* totalQuestions is the number n of questions.
C30_SharedEditsContiguous ==
    (\A a \in Admins : adminOp[a].op = "idle") => Contiguous

\* C24: a step of a participant page (its joinQuiz or submitAnswer) leaves the
\* participant record of every other user as it was.
C24_OthersRecordUntouched ==
    [][\A c \in Clients :
          client'[c] # client[c]
          => \A u \in Users \ {clientUser[c]} : participants'[u] = participants[u]]_vars

\* two users have answered the same question, one of them scoring
C24_Witness ==
    /\ participants["u1"].exists /\ participants["u2"].exists
    /\ \E q \in 0..(MaxQuestions - 1) :
           /\ Count(participants["u1"].answeredQuestions, q) > 0
           /\ Count(participants["u2"].answeredQuestions, q) > 0
    /\ participants["u1"].score # participants["u2"].score

\* C27: every stored per-question quiz has timePerQuestion in 10..120 and
\* every stored overall quiz has totalTime in 60..3600.
C27_BudgetsInRange ==
    IF isSelfPaced(quiz) THEN quiz.totalTime \in 60..3600
    ELSE quiz.timePerQuestion \in 10..120

\* C25: while the quiz is restricted, a participant record exists only for a
\* user whose normalized email is in allowedParticipants.
C25_OnlyAllowedJoin ==
    \A u \in Users :
        (quiz.isRestricted /\ participants[u].exists)
        => Normalize(userEmail(u)) \in Range(quiz.allowedParticipants)

\* C26: once deleteQuiz has deleted the quiz document and no joinQuiz or
\* submitAnswer call is in progress, no question, participant or response of
\* the quiz is stored.
C26_NoOrphanAfterDelete ==
    (~quiz.exists /\ \A c \in Clients : client[c].pc = "idle")
    => /\ questions = <<>>
       /\ \A u \in Users : ~participants[u].exists
       /\ responses = {}

(***************************************************************************)
(* Properties of submitAnswer as an operation (SpecSubmit)                 *)
(***************************************************************************)

\* the submitAnswer call of page c ends in this step with a rejected write
WriteFails(c) ==
    /\ client[c].pc \in {"submit_set", "submit_add", "submit_update"}
    /\ client'[c].pc = "idle"
    /\ UNCHANGED <<participants, responses>>

\* C23: when a write of submitAnswer fails, the participant document and the
\* responses are as they were when the call was made.
C23_FailedSubmitChangesNothing ==
    [][\A c \in Clients :
          WriteFails(c)
          => /\ participants'[participantRef(c)] = client[c].before.participant
             /\ responses' = client[c].before.responses]_vars

\* C28: the answeredQuestions of every participant hold only indices of
\* 0..totalQuestions-1.
C28_AnsweredInRange ==
    \A u \in Users :
        participants[u].exists
        => \A i \in 1..Len(participants[u].answeredQuestions) :
               participants[u].answeredQuestions[i] \in 0..(quiz.totalQuestions - 1)

C31_CascadeInWaiting ==
    \A a \in Admins :
        (adminOp[a].op = "restartQuiz" /\ adminOp[a].stage \notin {"update", "rejected"})
        => quiz.status = "waiting"

\* a restartQuiz failed after it deleted a participant and before it deleted
\* the responses
C31_Witness ==
    \E a \in Admins :
        /\ adminOp[a].op = "restartQuiz"
        /\ adminOp[a].stage = "failed"
        /\ adminOp[a].hadData
        /\ \E u \in Users : ~participants[u].exists
        /\ responses # {}

\* C32: once a restartQuiz and the joinQuiz or submitAnswer calls that were in
\* progress while it ran have completed, the quiz has no response and no
\* participant with a non-zero score or a non-empty answeredQuestions.
C32_NothingLeftAfterRestart ==
    \A a \in Admins :
        (/\ adminOp[a].op = "restartQuiz"
         /\ adminOp[a].stage = "done"
         /\ \A c \in Clients : client[c].pc = "idle")
        => /\ responses = {}
           /\ \A u \in Users :
                  participants[u].exists =>
                      participants[u].score = 0 /\ participants[u].answeredQuestions = <<>>

(***************************************************************************)
(* Properties of the participant record against the responses (SpecTabs)   *)
(***************************************************************************)

\* the responses stored for user u
ResponsesOf(u) == {r \in responses : r.userId = u}

\* the points submitAnswer computed for response r
PointsOf(r) ==
    calculateScore(r.isCorrect, SecondsFromMs(r.timeTaken),
                   IF isSelfPaced(quiz) THEN quiz.totalTime ELSE quiz.timePerQuestion)

RECURSIVE SumPoints(_)
SumPoints(rs) ==
    IF rs = {} THEN 0
    ELSE LET r == CHOOSE x \in rs : TRUE IN PointsOf(r) + SumPoints(rs \ {r})

\* C33: whenever no submitAnswer is in progress, the score of each participant
\* whose responses are for different questions is the sum of the points of
\* those responses, and answeredQuestions holds exactly their question indices.
C33_ScoreIsSumOfResponses ==
    (\A c \in Clients : client[c].pc = "idle")
    => \A u \in Users :
           (/\ participants[u].exists
            /\ \A r, s \in ResponsesOf(u) : r.questionIndex = s.questionIndex => r = s)
           => /\ participants[u].score = SumPoints(ResponsesOf(u))
              /\ Range(participants[u].answeredQuestions) =
                     {r.questionIndex : r \in ResponsesOf(u)}

(***************************************************************************)
(* Properties of the participant page across a Restart (SpecAgain)         *)
(***************************************************************************)

\* C34: on a participant page at rest that shows a live question, the local
\* hasAnswered flag is set only if the stored participant has answered the
\* current question, and the local answered set of a self-paced quiz holds
\* only questions the stored participant has answered: after Restart and
\* Advance to question 0 the flag is false and the set is empty.
C34_ClientCanAnswerAgain ==
    \A c \in Clients :
        (/\ quiz.status = "live"
         /\ ~isWaitingState(quiz)
         /\ client[c].pc = "idle"
         /\ client[c].check = "none")
        => IF isSelfPaced(quiz)
           THEN client[c].answeredQuestions \subseteq
                    Range(participants[participantRef(c)].answeredQuestions)
           ELSE (client[c].prevQuestionIndex = quiz.currentQuestionIndex
                 /\ client[c].hasAnswered)
                => checkHasAnswered(participants[participantRef(c)],
                                    quiz.currentQuestionIndex)

(***************************************************************************)
(* Properties of the page's guards (SpecClicks)                            *)
(***************************************************************************)

\* C35: the invocations of handleSubmitAnswer on one page for one question
\* make at most one submitAnswer call.
C35_OneSubmitPerQuestion == \A c \in Clients : client[c].refs.calls <= 1

(***************************************************************************)
(* Properties of the control panel's Timer (SpecTimer)                     *)
(***************************************************************************)

\* the Timer of panel a expires in this step and handleAutoNext calls nextQuestion
AutoNextCalls(a) ==
    /\ ~adminOp[a].panel.hasEndedRef
    /\ adminOp'[a].panel.hasEndedRef
    /\ adminOp[a].op = "idle"
    /\ adminOp'[a].op = "nextQuestion"

\* C36: handleAutoNext calls nextQuestion only with autoAdvanceRef clear, in
\* per-question mode, and sets it; autoAdvanceRef is cleared only in a step
\* that changes the question index the panel shows. So it calls nextQuestion
\* at most once for each value of currentQuestionIndex, and never in
\* self-paced mode.
C36_AutoNextOncePerIndex ==
    [][\A a \in Admins :
          /\ AutoNextCalls(a) =>
                 /\ ~isSelfPaced(quiz)
                 /\ ~adminOp[a].panel.autoAdvanceRef
                 /\ adminOp'[a].panel.autoAdvanceRef
          /\ (adminOp[a].panel.autoAdvanceRef /\ ~adminOp'[a].panel.autoAdvanceRef)
                 => adminOp'[a].panel.lastQuestionIndexRef
                        # adminOp[a].panel.lastQuestionIndexRef
          /\ isSelfPaced(quiz) => adminOp'[a].op # "nextQuestion"]_vars

\* the Timer of a question expired on a panel that had auto-advanced at the
\* same index, and the panel called nothing
C36_Witness ==
    \E a \in Admins :
        /\ quiz.status = "live"
        /\ view[a] = QuizView(quiz)
        /\ adminOp[a].op = "idle"
        /\ adminOp[a].panel.autoAdvanceRef
        /\ adminOp[a].panel.mounted
        /\ adminOp[a].panel.hasEndedRef
        /\ adminOp[a].panel.key = timerKey(quiz)
        /\ adminOp[a].panel.lastQuestionIndexRef = quiz.currentQuestionIndex

(***************************************************************************)
(* Properties of the restriction switch (SpecToggle)                       *)
(***************************************************************************)

\* C37: a restricted quiz has a non-empty allowedParticipants.
C37_RestrictedHasParticipants ==
    quiz.isRestricted => quiz.allowedParticipants # <<>>


\* C38: the updateDoc of removeAllowedParticipant leaves isRestricted as it was
\* whenever the list it writes is non-empty.
C38_RemoveKeepsRestriction ==
    [][\A a \in Admins :
           (/\ adminOp[a].op = "removeAllowedParticipant"
            /\ adminOp[a].stage = "update"
            /\ adminOp'[a].stage = "returned"
            /\ quiz'.allowedParticipants # <<>>)
           => quiz'.isRestricted = quiz.isRestricted]_vars


\* onTimeUp is called in this step of the Timer of page a
TimeUpCalled(a) ==
    /\ adminOp'[a].panel.fired > 0
    /\ \/ adminOp'[a].panel.fired # adminOp[a].panel.fired
       \/ adminOp'[a].panel.startTime # adminOp[a].panel.startTime

\* C39: a mounted Timer calls onTimeUp only when no time is left of its
\* duration since its startTime, and not a second time while its startTime
\* stays the same, whatever happens to isActive and duration.
C39_TimeUpOncePerStartTime ==
    [][\A a \in Admins :
           TimeUpCalled(a) =>
               /\ adminOp'[a].panel.fired = 1
               /\ calculateTimeLeft(adminOp'[a].panel.startTime,
                                    adminOp'[a].panel.duration) = 0]_vars

\* the Timer of components/Timer.jsx has called onTimeUp, and afterwards isActive
\* or duration changed under the same startTime
TimerFiredThenPropsChanged ==
    LET p == adminOp["a1"].panel
    IN  /\ p.fired = 1
        /\ p.hasEndedRef
        /\ p.isActive
        /\ p.duration = shortestQuestion + ClockStep
        /\ calculateTimeLeft(p.startTime, p.duration) = 0

====
